---------------------------- MODULE Spec2Model ----------------------------
(***************************************************************************)
(* A model of dominode-bootstrapper: the provisioning commands of the      *)
(* three backends (PostgreSQL: dbadmin.py, MinIO: minioadmin.py,           *)
(* GeoNode/GeoServer: geonodeadmin.py) and the top-level bootstrap         *)
(* (dominodeadmin.py).                                                     *)
(*                                                                         *)
(* Every command is one action.  The action runs the backend calls of the  *)
(* command in order against the backend state, stops at the first call     *)
(* that raises, and keeps the effects of the calls before it.  A call      *)
(* raises either because the backend rejects it (a missing role, a         *)
(* duplicate, ...) or because of an injected fault (the connection drops,  *)
(* the process exits non-zero, HTTP 5xx): the action draws the faulty call *)
(* k and the kind of error.  A database command is the sequence of its     *)
(* calls ("ops"); a storage or GIS command is the composition of its       *)
(* calls, each passing on the result of the one before.                    *)
(***************************************************************************)
EXTENDS Integers, Sequences, FiniteSets, TLC

VARIABLES
    config,     \* departments whose '{d}-department' section has geoserver_password
    db,         \* the PostgreSQL database: roles, schemas, tables, flags
    minio,      \* the MinIO server: buckets, users, policies, groups
    geo,        \* GeoNode and GeoServer: categories, groups, workspaces, rules, stores
    last,       \* the last command: name, argument, fault, error, outcome, log
    pending,    \* after a failed command: what a fault-free run would have left
    faults,     \* number of injected faults so far
    given,      \* the arguments given to the functions called on their own: the
                \* department list of the policy generators, in two orders; two
                \* department names
    generated   \* what these functions returned so far, by function and argument

vars == <<config, db, minio, geo, last, pending, faults, given, generated>>

-----------------------------------------------------------------------------
(* Bounds of the model *)

\* injected faults per behaviour
MaxFaults == 1

\* longest department list given to the policy generators
MaxDepartments == 3

\* most sections of a configuration given to get_departments
MaxSections == 3

\* most pages of a listing of the GeoNode REST API
MaxPages == 4

\* most requests of one listing that the model follows
MaxRequests == 6

-----------------------------------------------------------------------------
(* Configuration: utils.py *)

\* the default departments, in the order of the configuration sections
DefaultDepartments == <<"ppd", "lsd">>

\* A section name is written as the sequence of its parts between the
\* separators '-': <<"lsd", "department">> is the section lsd-department.
section_name(department) == <<department, "department">>

\* _get_default_config: the sections of the default configuration
DefaultSections ==
    << <<"db">>, <<"minio">>, <<"geonode">>, <<"geoserver">>, <<"dominode">> >>
        \o [i \in 1..Len(DefaultDepartments) |-> section_name(DefaultDepartments[i])]

\* section.endswith('-department')
endswith_department(section) ==
    Len(section) >= 2 /\ section[Len(section)] = "department"

\* section.partition('-')[0]: the part before the first separator
partition_head(section) == section[1]

\* get_departments on a configuration with these sections
sections_departments(sections) ==
    [i \in 1..Len(SelectSeq(sections, endswith_department)) |->
        partition_head(SelectSeq(sections, endswith_department)[i])]

get_departments == sections_departments(DefaultSections)

Departments == {get_departments[i] : i \in 1..Len(get_departments)}

generic_user_name == "dominode_user"

generic_editor_role_name == "editor"

\* the role the commands connect as: owner of what it creates
db_admin_username == "postgres"

get_geoserver_db_username(department) == department \o "_geoserver"

-----------------------------------------------------------------------------
(* The database backend: dbadmin.py *)

LSD_TOPOMAP_EDITOR_ROLE_NAME == "lsd_topomap_editor"

max_tries == 30

\* the seconds get_db_connection sleeps after a failed attempt
sleep_for == 2

NoSet == {}

\* one backend call of a database command
Op(op, obj, who, parents, opts) ==
    [op |-> op, obj |-> obj, who |-> who, parents |-> parents, opts |-> opts]

\* create_role without the existence check
create_role_unchecked(name, parent_roles, other_options) ==
    Op("CREATE ROLE", name, "", parent_roles, other_options)

\* create_role: CREATE ROLE guarded by check_for_role
create_role(name, parent_roles, other_options) ==
    Op("create_role", name, "", parent_roles, other_options)

create_user(name, password, parent_roles) ==
    create_role(name, parent_roles, {"LOGIN", "PASSWORD " \o password})

check_for_role(role, d) == role \in DOMAIN d.roles

\* create_schema without IF NOT EXISTS
create_schema_plain(name, owner_role) ==
    Op("CREATE SCHEMA", name, owner_role, NoSet, NoSet)

create_schema(name, owner_role) ==
    Op("CREATE SCHEMA IF NOT EXISTS", name, owner_role, NoSet, NoSet)

grant_schema_permissions(schema, permissions, role) ==
    Op("GRANT ON SCHEMA", schema, role, NoSet, permissions)

QgisTable(schema) == schema \o ".qgis_projects"

\* create_qgis_projects_table revoking before the ownership change
create_qgis_projects_table_revoke_first(schema, owner, revoke_owner_updates, grant_select_to) ==
    <<Op("CREATE TABLE IF NOT EXISTS", QgisTable(schema), schema, NoSet, NoSet)>>
    \o (IF revoke_owner_updates
        THEN <<Op("REVOKE UPDATE", QgisTable(schema), owner, NoSet, NoSet)>>
        ELSE <<>>)
    \o <<Op("ALTER TABLE OWNER TO", QgisTable(schema), owner, NoSet, NoSet)>>
    \o (IF grant_select_to # ""
        THEN <<Op("GRANT SELECT", QgisTable(schema), grant_select_to, NoSet, NoSet)>>
        ELSE <<>>)

create_qgis_projects_table(schema, owner, revoke_owner_updates, grant_select_to) ==
    <<Op("CREATE TABLE IF NOT EXISTS", QgisTable(schema), schema, NoSet, NoSet),
      Op("ALTER TABLE OWNER TO", QgisTable(schema), owner, NoSet, NoSet)>>
    \o (IF revoke_owner_updates
        THEN <<Op("REVOKE UPDATE", QgisTable(schema), owner, NoSet, NoSet)>>
        ELSE <<>>)
    \o (IF grant_select_to # ""
        THEN <<Op("GRANT SELECT", QgisTable(schema), grant_select_to, NoSet, NoSet)>>
        ELSE <<>>)

\* bootstrap_lsd_topomaps creating the schema before the role that owns it
bootstrap_lsd_topomaps_schema_first(user_role_name) ==
    <<create_schema("lsd_topomaps", LSD_TOPOMAP_EDITOR_ROLE_NAME),
      create_role(LSD_TOPOMAP_EDITOR_ROLE_NAME, {user_role_name}, NoSet),
      grant_schema_permissions("lsd_topomaps", {"USAGE"}, user_role_name)>>
    \o create_qgis_projects_table(
          "lsd_topomaps", LSD_TOPOMAP_EDITOR_ROLE_NAME, TRUE, user_role_name)

bootstrap_lsd_topomaps(user_role_name) ==
    <<create_role(LSD_TOPOMAP_EDITOR_ROLE_NAME, {user_role_name}, NoSet),
      create_schema("lsd_topomaps", LSD_TOPOMAP_EDITOR_ROLE_NAME),
      grant_schema_permissions("lsd_topomaps", {"USAGE"}, user_role_name)>>
    \o create_qgis_projects_table(
          "lsd_topomaps", LSD_TOPOMAP_EDITOR_ROLE_NAME, TRUE, user_role_name)

\* the lookup config['{department}-department']['geoserver_password']
config_geoserver_password(department) ==
    Op("config", department, "", NoSet, NoSet)

\* bootstrap_department with the topomap objects for every department
bootstrap_department_with_topomaps(department) ==
    <<create_role(department \o "_user", {"dominode_user"}, NoSet),
      create_role(department \o "_editor", {"editor", department \o "_user"}, NoSet),
      create_schema(department \o "_staging", department \o "_editor"),
      grant_schema_permissions(department \o "_staging", {"USAGE", "CREATE"},
                               department \o "_user")>>
    \o create_qgis_projects_table(department \o "_staging", department \o "_user", FALSE, "")
    \o <<config_geoserver_password(department),
         create_user(get_geoserver_db_username(department), "dominode",
                     {generic_user_name})>>
    \o bootstrap_lsd_topomaps(department \o "_user")

bootstrap_department(department) ==
    LET user_role == department \o "_user"
        editor_role == department \o "_editor"
        staging_schema_name == department \o "_staging"
    IN  <<create_role(user_role, {"dominode_user"}, NoSet),
          create_role(editor_role, {"editor", user_role}, NoSet),
          create_schema(staging_schema_name, editor_role),
          grant_schema_permissions(staging_schema_name, {"USAGE", "CREATE"}, user_role)>>
        \o create_qgis_projects_table(staging_schema_name, user_role, FALSE, "")
        \o <<config_geoserver_password(department),
             create_user(get_geoserver_db_username(department), "dominode",
                         {generic_user_name})>>
        \o (IF department = "lsd" THEN bootstrap_lsd_topomaps(user_role) ELSE <<>>)

RECURSIVE bootstrap_departments(_)
bootstrap_departments(i) ==
    IF i > Len(get_departments) THEN <<>>
    ELSE bootstrap_department(get_departments[i]) \o bootstrap_departments(i + 1)

db_bootstrap ==
    <<create_role("admin", NoSet, {"CREATEDB", "CREATEROLE"}),
      create_role("replicator", NoSet, {"REPLICATION"}),
      create_role(generic_user_name, NoSet, NoSet),
      create_role(generic_editor_role_name, NoSet, {"IN ROLE dominode_user"}),
      create_schema("dominode_staging", generic_editor_role_name),
      grant_schema_permissions("dominode_staging", {"USAGE", "CREATE"}, generic_user_name)>>
    \o bootstrap_departments(1)
    \o <<Op("REVOKE CREATE ON SCHEMA public FROM public", "public", "public", NoSet, NoSet),
         Op("GRANT CREATE ON SCHEMA public TO", "public", generic_editor_role_name, NoSet, NoSet),
         Op("finalize-bootstrap-db.sql", "", "", NoSet, NoSet)>>

db_add_department(department) == bootstrap_department(department)

RECURSIVE ParentRoles(_, _, _)
ParentRoles(departments, role_suffix, i) ==
    IF i > Len(departments) THEN {}
    ELSE {departments[i] \o "_" \o role_suffix} \cup ParentRoles(departments, role_suffix, i + 1)

\* add_department_user giving every user the departments' user roles
db_add_department_user_as_regular(username, password, departments, role, is_topomap_editor) ==
    <<create_user(username, password,
                  ParentRoles(departments, "user", 1)
                      \cup (IF is_topomap_editor THEN {LSD_TOPOMAP_EDITOR_ROLE_NAME}
                            ELSE {}))>>

db_add_department_user(username, password, departments, role, is_topomap_editor) ==
    LET role_suffix == IF role = "EDITOR" THEN "editor" ELSE "user"
        parent_roles == ParentRoles(departments, role_suffix, 1)
                        \cup (IF is_topomap_editor THEN {LSD_TOPOMAP_EDITOR_ROLE_NAME} ELSE {})
    IN  <<create_user(username, password, parent_roles)>>

-----------------------------------------------------------------------------
(* What PostgreSQL does with each statement the commands issue.  Every      *)
(* statement is committed on its own (the engine's autocommit for DDL), so  *)
(* a statement either applies fully or raises and changes nothing.          *)

EmptyDb ==
    [roles |-> <<>>, schemas |-> <<>>, tables |-> <<>>, flags |-> {}]

\* the roles a CREATE ROLE statement makes the new role a member of
InRoles(o) ==
    o.parents \cup (IF "IN ROLE dominode_user" \in o.opts THEN {"dominode_user"} ELSE {})

\* whether the object a call is about exists in database d
Present(d, o) ==
    CASE o.op \in {"create_role", "CREATE ROLE"} -> o.obj \in DOMAIN d.roles
      [] o.op \in {"CREATE SCHEMA IF NOT EXISTS", "CREATE SCHEMA", "GRANT ON SCHEMA"} ->
            o.obj \in DOMAIN d.schemas
      [] o.op \in {"CREATE TABLE IF NOT EXISTS", "ALTER TABLE OWNER TO",
                   "REVOKE UPDATE", "GRANT SELECT"} -> o.obj \in DOMAIN d.tables
      [] OTHER -> TRUE

\* a server that accepts CREATE ROLE for a role that exists
SqlAccepted_role_replaced(d, o) ==
    CASE o.op = "CREATE ROLE" -> InRoles(o) \subseteq DOMAIN d.roles
      [] o.op = "CREATE SCHEMA IF NOT EXISTS" -> o.who \in DOMAIN d.roles
      [] o.op = "CREATE SCHEMA" ->
            o.obj \notin DOMAIN d.schemas /\ o.who \in DOMAIN d.roles
      [] o.op = "GRANT ON SCHEMA" ->
            o.obj \in DOMAIN d.schemas /\ o.who \in DOMAIN d.roles
      [] o.op = "CREATE TABLE IF NOT EXISTS" -> o.who \in DOMAIN d.schemas
      [] o.op \in {"ALTER TABLE OWNER TO", "REVOKE UPDATE", "GRANT SELECT"} ->
            o.obj \in DOMAIN d.tables /\ o.who \in DOMAIN d.roles
      [] o.op = "GRANT CREATE ON SCHEMA public TO" -> o.who \in DOMAIN d.roles
      [] OTHER -> TRUE

\* the statement is accepted: the objects and roles it names exist
SqlAccepted(d, o) ==
    CASE o.op = "CREATE ROLE" ->
            o.obj \notin DOMAIN d.roles /\ InRoles(o) \subseteq DOMAIN d.roles
      [] o.op = "CREATE SCHEMA IF NOT EXISTS" -> o.who \in DOMAIN d.roles
      [] o.op = "CREATE SCHEMA" ->
            o.obj \notin DOMAIN d.schemas /\ o.who \in DOMAIN d.roles
      [] o.op = "GRANT ON SCHEMA" ->
            o.obj \in DOMAIN d.schemas /\ o.who \in DOMAIN d.roles
      [] o.op = "CREATE TABLE IF NOT EXISTS" -> o.who \in DOMAIN d.schemas
      [] o.op \in {"ALTER TABLE OWNER TO", "REVOKE UPDATE", "GRANT SELECT"} ->
            o.obj \in DOMAIN d.tables /\ o.who \in DOMAIN d.roles
      [] o.op = "GRANT CREATE ON SCHEMA public TO" -> o.who \in DOMAIN d.roles
      [] OTHER -> TRUE

\* the database after an accepted statement
SqlApply(d, o) ==
    CASE o.op = "CREATE ROLE" ->
            [d EXCEPT !.roles = (o.obj :> [parents |-> InRoles(o),
                                           opts |-> o.opts \ {"IN ROLE dominode_user"}]) @@ @]
      [] o.op \in {"CREATE SCHEMA IF NOT EXISTS", "CREATE SCHEMA"} ->
            IF o.obj \in DOMAIN d.schemas THEN d
            ELSE [d EXCEPT !.schemas = (o.obj :> [owner |-> o.who, grants |-> {}]) @@ @]
      [] o.op = "GRANT ON SCHEMA" ->
            [d EXCEPT !.schemas[o.obj].grants = @ \cup {<<p, o.who>> : p \in o.opts}]
      [] o.op = "CREATE TABLE IF NOT EXISTS" ->
            IF o.obj \in DOMAIN d.tables THEN d
            ELSE [d EXCEPT !.tables = (o.obj :> [owner |-> db_admin_username,
                                                 noUpdate |-> FALSE,
                                                 select |-> {}]) @@ @]
      [] o.op = "ALTER TABLE OWNER TO" ->
            [d EXCEPT !.tables[o.obj].owner = o.who]
      [] o.op = "REVOKE UPDATE" ->
            \* only the owner holds UPDATE on the table
            IF d.tables[o.obj].owner = o.who
            THEN [d EXCEPT !.tables[o.obj].noUpdate = TRUE]
            ELSE d
      [] o.op = "GRANT SELECT" ->
            [d EXCEPT !.tables[o.obj].select = @ \cup {o.who}]
      [] o.op = "REVOKE CREATE ON SCHEMA public FROM public" ->
            [d EXCEPT !.flags = @ \cup {"public: no CREATE for public"}]
      [] o.op = "GRANT CREATE ON SCHEMA public TO" ->
            [d EXCEPT !.flags = @ \cup {"public: CREATE for " \o o.who}]
      [] o.op = "finalize-bootstrap-db.sql" ->
            [d EXCEPT !.flags = @ \cup {"finalized"}]
      [] OTHER -> d

\* one line of a command's log: the call, whether its object was in the
\* database when the command started (pre) and when the call was made (now),
\* and what came of it: "created", "changed", "noop" (issued, nothing
\* changed), "skipped" (not issued: the role exists), "read", "failed"
\* (issued and raised), "check failed" (the existence check raised)
LogEntry(o, pre, now, effect) ==
    [op |-> IF o.op = "create_role" THEN "CREATE ROLE" ELSE o.op,
     obj |-> o.obj, who |-> o.who, pre |-> pre, now |-> now, effect |-> effect]

\* one call of a command against database d (d0: the database when the command started)
ExecOp(d, d0, cfg, o) ==
    IF o.op = "create_role" /\ check_for_role(o.obj, d)
    THEN [db |-> d, err |-> "none",
          entry |-> LogEntry(o, Present(d0, o), TRUE, "skipped")]
    ELSE IF o.op = "config"
    THEN [db |-> d,
          err |-> IF o.obj \in cfg THEN "none" ELSE "KeyError",
          entry |-> LogEntry(o, TRUE, TRUE, IF o.obj \in cfg THEN "read" ELSE "failed")]
    ELSE LET s == IF o.op = "create_role" THEN [o EXCEPT !.op = "CREATE ROLE"] ELSE o
         IN  IF ~SqlAccepted(d, s)
             THEN [db |-> d, err |-> "ProgrammingError",
                   entry |-> LogEntry(o, Present(d0, o), Present(d, o), "failed")]
             ELSE LET d2 == SqlApply(d, s)
                  IN  [db |-> d2, err |-> "none",
                       entry |-> LogEntry(o, Present(d0, o), Present(d, o),
                                   IF d2 = d THEN "noop"
                                   ELSE IF Present(d, s) THEN "changed" ELSE "created")]

\* the log line of a call that an injected fault makes raise: for a
\* create_role of a role that exists the call is the existence check
FaultEntry(d, d0, o) ==
    LogEntry(o, Present(d0, o), Present(d, o),
             IF o.op = "create_role" /\ check_for_role(o.obj, d)
             THEN "check failed" ELSE "failed")

\* The calls of a command run in order from the i-th on, with no injected
\* fault: one record per call made, up to and including the first that raises.
RECURSIVE RunOps(_, _, _, _, _)
RunOps(d, d0, cfg, prog, i) ==
    IF i > Len(prog) THEN <<>>
    ELSE LET r == ExecOp(d, d0, cfg, prog[i])
         IN  IF r.err # "none" THEN <<r>>
             ELSE <<r>> \o RunOps(r.db, d0, cfg, prog, i + 1)

\* The body of a command whose fault-free run from d0 is `run`: call k raises
\* `kind` before it acts (k = 0: no injected fault).  The calls before the
\* one that raises keep their effect; those after it are not made.
RunBody(run, d0, prog, k, kind) ==
    LET n == IF k = 0 THEN Len(run) ELSE k - 1
        made == [i \in 1..n |-> run[i].entry]
    IN  [db |-> IF n = 0 THEN d0 ELSE run[n].db,
         err |-> IF k = 0 THEN run[n].err ELSE kind,
         log |-> IF k = 0 THEN made
                 ELSE Append(made, FaultEntry(IF n = 0 THEN d0 ELSE run[n].db, d0, prog[k]))]

\* get_db_connection around the body of a command: conn_failures attempts to
\* connect fail before one succeeds.  The result is the body's, with whether
\* the error (if any) leaves the `with` block.
get_db_connection(d, body, conn_failures) ==
    IF conn_failures >= max_tries
    THEN [db |-> d, err |-> "OperationalError", outcome |-> "raised", log |-> <<>>]
    ELSE LET current_try == conn_failures + 1
         IN  [db |-> body.db, err |-> body.err, log |-> body.log,
              outcome |-> IF body.err = "none" THEN "returned"
                          ELSE IF body.err = "OperationalError" /\ current_try < max_tries
                               THEN "returned"
                               ELSE "raised"]

-----------------------------------------------------------------------------
(* The storage backend: minioadmin.py *)

SUCCESS == "success"

DOMINODE_STAGING_BUCKET_NAME == "dominode-staging"

PUBLIC_BUCKET_NAME == "public"

POLICY_VERSION == "2012-10-17"

\* the staging bucket shared by the departments, whatever the department
get_staging_bucket_name_shared(department) == DOMINODE_STAGING_BUCKET_NAME

get_staging_bucket_name(department) == department \o "-staging"

get_dominode_staging_root_dir_name(department) ==
    DOMINODE_STAGING_BUCKET_NAME \o "/" \o department \o "/"

get_public_root_dir_name(department) ==
    PUBLIC_BUCKET_NAME \o "/" \o department \o "/"

\* the position of a department name in the order of Python's sorted()
SortKey(name) == CASE name = "lsd" -> 1 [] name = "ppd" -> 2 [] OTHER -> 3

RECURSIVE Insert(_, _)
Insert(sortedSeq, x) ==
    IF sortedSeq = <<>> THEN <<x>>
    ELSE IF SortKey(x) <= SortKey(Head(sortedSeq)) THEN <<x>> \o sortedSeq
    ELSE <<Head(sortedSeq)>> \o Insert(Tail(sortedSeq), x)

RECURSIVE sorted(_)
sorted(names) ==
    IF names = <<>> THEN <<>> ELSE Insert(sorted(Tail(names)), Head(names))

RECURSIVE Join(_, _)
Join(names, sep) ==
    IF names = <<>> THEN ""
    ELSE IF Len(names) = 1 THEN names[1]
    ELSE names[1] \o sep \o Join(Tail(names), sep)

\* get_policy_name joining the departments in the order given
get_policy_name_unsorted(role, departments) ==
    Join(departments, "-") \o (IF role = "EDITOR" THEN "-editor-group-policy"
                               ELSE "-regular-user-group-policy")

get_policy_name(role, departments) ==
    LET dept_names == Join(sorted(departments), "-")
    IN  IF role = "EDITOR" THEN dept_names \o "-editor-group-policy"
        ELSE dept_names \o "-regular-user-group-policy"

get_group_name(role, policy) ==
    policy \o (IF role = "EDITOR" THEN "-editor-group" ELSE "-user-group")

Statement(sid, action, effect, resource) ==
    [Sid |-> sid, Action |-> action, Effect |-> effect, Resource |-> resource]

\* the initial policy without its read-only statement
BasePolicy_without_read_only(prefix) ==
    [Version |-> POLICY_VERSION,
     Statement |->
        <<Statement(prefix \o "-deny-bucket-delete", <<"s3:DeleteBucket">>, "Deny",
                    <<"arn:aws:s3:::" \o DOMINODE_STAGING_BUCKET_NAME>>),
          Statement(prefix \o "-allow-full-access", <<"s3:*">>, "Allow", <<>>)>>]

\* the policy before the loop over the departments; prefix is 'regular-user' or 'editor-user'
BasePolicy(prefix) ==
    [Version |-> POLICY_VERSION,
     Statement |->
        <<Statement(prefix \o "-deny-bucket-delete", <<"s3:DeleteBucket">>, "Deny",
                    <<"arn:aws:s3:::" \o DOMINODE_STAGING_BUCKET_NAME>>),
          Statement(prefix \o "-allow-full-access", <<"s3:*">>, "Allow", <<>>),
          Statement(prefix \o "-read-only-access",
                    <<"s3:GetBucketLocation", "s3:ListBucket", "s3:GetObject">>, "Allow",
                    <<"arn:aws:s3:::" \o DOMINODE_STAGING_BUCKET_NAME \o "/*",
                      "arn:aws:s3:::" \o PUBLIC_BUCKET_NAME \o "/*">>)>>]

\* the turn of the loop that would set every Sid to the department
PolicyStep_sid_replaced(policy, department, with_public) ==
    [policy EXCEPT !.Statement =
        [i \in 1..Len(policy.Statement) |->
            [policy.Statement[i] EXCEPT
                !.Sid = "-" \o department,
                !.Resource = @ \o <<"arn:aws:s3:::" \o get_staging_bucket_name(department)>>]]]

\* one turn of the loop `for department in departments` of the policy generators
PolicyStep(policy, department, with_public) ==
    LET tagged == [i \in 1..Len(policy.Statement) |->
                      [policy.Statement[i] EXCEPT !.Sid = @ \o "-" \o department]]
        deny_bucket_index == 1
        allow_full_access_index == 2
    IN  [policy EXCEPT !.Statement =
            [tagged EXCEPT
                ![deny_bucket_index].Resource =
                    Append(@, "arn:aws:s3:::" \o get_staging_bucket_name(department)),
                ![allow_full_access_index].Resource =
                    @ \o <<"arn:aws:s3:::" \o get_staging_bucket_name(department) \o "/*",
                           "arn:aws:s3:::" \o get_dominode_staging_root_dir_name(department) \o "*">>
                      \o (IF with_public
                          THEN <<"arn:aws:s3:::" \o get_public_root_dir_name(department) \o "*">>
                          ELSE <<>>)]]

RECURSIVE PolicyLoop(_, _, _)
PolicyLoop(policy, departments, with_public) ==
    IF departments = <<>> THEN policy
    ELSE PolicyLoop(PolicyStep(policy, Head(departments), with_public),
                    Tail(departments), with_public)

\* get_user_policy giving the public directories of the departments as well
get_user_policy_with_public(departments) ==
    PolicyLoop(BasePolicy("regular-user"), departments, TRUE)

get_user_policy(departments) == PolicyLoop(BasePolicy("regular-user"), departments, FALSE)

\* get_editor_policy without the public directories of the departments
get_editor_policy_without_public(departments) ==
    PolicyLoop(BasePolicy("editor-user"), departments, FALSE)

get_editor_policy(departments) == PolicyLoop(BasePolicy("editor-user"), departments, TRUE)

EmptyMinio ==
    [buckets |-> {}, anonymous |-> {}, users |-> <<>>, policies |-> <<>>, groups |-> <<>>]

\* What the MinIO server does with an `mc` command: the new state, whether
\* the process exits with zero, and the parsed output.
McExec(st, command, a, b) ==
    CASE command = "mb --ignore-existing" ->
            [st |-> [st EXCEPT !.buckets = @ \cup {a}], ok |-> TRUE, out |-> {}]
      [] command = "policy set download" ->
            [st |-> [st EXCEPT !.anonymous = @ \cup {a}], ok |-> a \in st.buckets, out |-> {}]
      [] command = "admin user list" ->
            [st |-> st, ok |-> TRUE, out |-> DOMAIN st.users]
      [] command = "admin user add" ->
            \* creates the user or overwrites its secret; the server refuses short secrets
            IF Len(b) < 8 THEN [st |-> st, ok |-> FALSE, out |-> {}]
            ELSE [st |-> [st EXCEPT !.users = (a :> b) @@ @], ok |-> TRUE, out |-> {}]
      [] command = "admin user remove" ->
            IF a \notin DOMAIN st.users THEN [st |-> st, ok |-> FALSE, out |-> {}]
            ELSE [st |-> [st EXCEPT
                            !.users = [u \in DOMAIN @ \ {a} |-> @[u]],
                            !.groups = [g \in DOMAIN @ |->
                                          [@[g] EXCEPT !.members = @ \ {a}]]],
                  ok |-> TRUE, out |-> {}]
      [] command = "admin policy list" ->
            [st |-> st, ok |-> TRUE, out |-> DOMAIN st.policies]
      [] command = "admin policy add" ->
            [st |-> [st EXCEPT !.policies = (a :> b) @@ @], ok |-> TRUE, out |-> {}]
      [] command = "admin policy set group=" ->
            IF a \notin DOMAIN st.policies \/ b \notin DOMAIN st.groups
            THEN [st |-> st, ok |-> FALSE, out |-> {}]
            ELSE [st |-> [st EXCEPT !.groups[b].policy = a], ok |-> TRUE, out |-> {}]
      [] command = "admin policy set user=" ->
            IF a \notin DOMAIN st.policies \/ b \notin DOMAIN st.users
            THEN [st |-> st, ok |-> FALSE, out |-> {}]
            ELSE [st |-> st, ok |-> TRUE, out |-> {}]
      [] command = "admin group list" ->
            [st |-> st, ok |-> TRUE, out |-> DOMAIN st.groups]
      [] command = "admin group add" ->
            \* adds the user to the group, creating the group when it is new
            IF b \notin DOMAIN st.users THEN [st |-> st, ok |-> FALSE, out |-> {}]
            ELSE IF a \in DOMAIN st.groups
                 THEN [st |-> [st EXCEPT !.groups[a].members = @ \cup {b}],
                       ok |-> TRUE, out |-> {}]
                 ELSE [st |-> [st EXCEPT !.groups =
                                  (a :> [members |-> {b}, policy |-> ""]) @@ @],
                       ok |-> TRUE, out |-> {}]
      [] OTHER -> [st |-> st, ok |-> FALSE, out |-> {}]

\* the result of (a part of) a command: the backend state, the calls made so
\* far (n) and their log, the error raised (if any) and the value returned
Start(st) == [st |-> st, n |-> 0, err |-> "none", log |-> <<>>, out |-> {}]

McLine(command, a, b, effect) ==
    [op |-> command, obj |-> a, who |-> IF command = "admin policy add" THEN "" ELSE b,
     pre |-> FALSE, now |-> FALSE, effect |-> effect]

\* the result of an `mc` call that ended with x
Executed(r, x, command, a, b) ==
    [st |-> x.st, n |-> r.n + 1,
     err |-> IF x.ok THEN "none" ELSE "CalledProcessError",
     log |-> Append(r.log, McLine(command, a, b,
                IF ~x.ok THEN "failed"
                ELSE IF x.st = r.st THEN "noop" ELSE "changed")),
     out |-> x.out]

\* execute_command / execute_minio_admin_command: run `mc`, raise
\* CalledProcessError on a non-zero exit; call k of the command (if any)
\* exits non-zero without acting.  Nothing runs once an error is raised
\* (r.err), here and in the operators below.
execute_command(r, k, command, a, b) ==
    IF r.err # "none" THEN r
    ELSE IF r.n + 1 = k
    THEN [r EXCEPT !.n = @ + 1, !.err = "CalledProcessError",
                   !.log = Append(@, McLine(command, a, b, "failed"))]
    ELSE Executed(r, McExec(r.st, command, a, b), command, a, b)

Raise(r, err) == [r EXCEPT !.err = err]

Return(r, value) == IF r.err # "none" THEN r ELSE [r EXCEPT !.out = value]

\* create_user, from the list of the users on
create_user_listed(existing_users, k, user_access_key, user_secret_key, secret_key, force) ==
    IF existing_users.err # "none" THEN existing_users
    ELSE IF Len(secret_key) < 8 THEN Raise(existing_users, "RuntimeError")
    ELSE IF user_access_key \notin existing_users.out \/ force
         THEN Return(execute_command(existing_users, k, "admin user add",
                                     user_access_key, user_secret_key), TRUE)
         ELSE Return(existing_users, TRUE)

\* create_user: secret_key is the administrator's, user_secret_key the new user's
minio_create_user(r, k, user_access_key, user_secret_key, secret_key, force) ==
    create_user_listed(execute_command(r, k, "admin user list", "", ""), k,
                       user_access_key, user_secret_key, secret_key, force)

create_temp_user(r, k, secret_key) ==
    minio_create_user(r, k, "tempuser", "12345678", secret_key, TRUE)

\* get_temp_user, the `finally` done: the error of the with block, if any, is
\* raised again
get_temp_user_finally(removed, err, group) ==
    IF removed.err # "none" THEN removed
    ELSE IF err # "none" THEN Raise(removed, err)
    ELSE Return(removed, group)

\* get_temp_user without try/finally: the temporary user is removed only
\* when the with block ends without error
get_temp_user_exit_unguarded(creation_result, k, group) ==
    IF creation_result.err # "none" THEN creation_result
    ELSE get_temp_user_finally(execute_command(creation_result, k,
                                               "admin user remove", "tempuser", ""),
                               "none", group)

\* get_temp_user, leaving the with block: the temporary user is removed
\* whether the 'group add' succeeded or not
get_temp_user_exit(creation_result, k, group) ==
    get_temp_user_finally(execute_command(Raise(creation_result, "none"), k,
                                          "admin user remove", "tempuser", ""),
                          creation_result.err, group)

\* get_temp_user around the 'group add' of create_group
get_temp_user(user_creds, k, group) ==
    IF user_creds.err # "none" THEN user_creds
    ELSE get_temp_user_exit(execute_command(user_creds, k, "admin group add",
                                            group, "tempuser"),
                            k, group)

\* create_group, from the list of the groups on
create_group_listed(existing_groups, k, group, secret_key) ==
    IF existing_groups.err # "none" THEN existing_groups
    ELSE IF group \in existing_groups.out THEN Return(existing_groups, group)
    ELSE get_temp_user(create_temp_user(existing_groups, k, secret_key), k, group)

create_group(r, k, group, secret_key) ==
    create_group_listed(execute_command(r, k, "admin group list", "", ""), k, group, secret_key)

policy_listed(existing_policies, name) ==
    Return(existing_policies, name \in existing_policies.out)

policy_exists(r, k, name) ==
    policy_listed(execute_command(r, k, "admin policy list", "", ""), name)

add_policy(r, k, name, policy) ==
    execute_command(r, k, "admin policy add", name, policy)

\* set_policy(policy, user, group); "" stands for None
set_policy(r, k, policy, user, group) ==
    IF r.err # "none" THEN r
    ELSE IF user = "" /\ group = "" THEN Raise(r, "RuntimeError")
    ELSE IF user # ""
    THEN execute_command(r, k, "admin policy set user=", policy, group)
    ELSE execute_command(r, k, "admin policy set group=", policy, group)

add_user_to_group(r, k, user, group) ==
    execute_command(r, k, "admin group add", group, user)

create_bucket(r, k, name) ==
    execute_command(r, k, "mb --ignore-existing", name, "")

minio_add_department(r, k, name) ==
    create_bucket(
        create_bucket(
            create_bucket(r, k, get_staging_bucket_name(name)),
            k, get_dominode_staging_root_dir_name(name)),
        k, get_public_root_dir_name(name))

RECURSIVE minio_add_departments(_, _, _)
minio_add_departments(r, k, i) ==
    IF i > Len(get_departments) \/ r.err # "none" THEN r
    ELSE minio_add_departments(minio_add_department(r, k, get_departments[i]), k, i + 1)

minio_bootstrap(r, k) ==
    minio_add_departments(
        execute_command(
            create_bucket(create_bucket(r, k, DOMINODE_STAGING_BUCKET_NAME),
                          k, PUBLIC_BUCKET_NAME),
            k, "policy set download", PUBLIC_BUCKET_NAME, ""),
        k, 1)

\* add_department_user, the block under `if not manager.policy_exists(policy_name)`
add_department_user_policy(exists, k, departments, role, secret_key, policy_name, group_name) ==
    IF exists.err # "none" \/ exists.out THEN exists
    ELSE set_policy(
             create_group(
                 add_policy(exists, k, policy_name,
                            IF role = "EDITOR" THEN get_editor_policy(departments)
                            ELSE get_user_policy(departments)),
                 k, group_name, secret_key),
             k, policy_name, "", group_name)

\* add_department_user, from the result of add_user on
add_department_user_added(added, k, user_access_key, departments, role, secret_key, policy_name, group_name) ==
    IF added.err # "none" THEN added
    ELSE IF ~added.out THEN Raise(added, "RuntimeError")
    ELSE add_user_to_group(
             add_department_user_policy(policy_exists(added, k, policy_name), k,
                                        departments, role, secret_key,
                                        policy_name, group_name),
             k, user_access_key, group_name)

minio_add_department_user(r, k, user_access_key, user_secret_key, departments, role, secret_key) ==
    add_department_user_added(
        minio_create_user(r, k, user_access_key, user_secret_key, secret_key, FALSE),
        k, user_access_key, departments, role, secret_key,
        get_policy_name(role, departments),
        get_group_name(role, get_policy_name(role, departments)))

-----------------------------------------------------------------------------
(* The GIS backend: geonodeadmin.py *)

INTERNAL_GEONODE_GROUP_NAME == "dominode-internal"

EDITOR_GROUP_CATEGORY_NAME == "dominode-editor"

get_geonode_group_name(department) == department \o "-editor"

\* str.upper() on the group names of the model
upper(name) ==
    CASE name = "lsd-editor" -> "LSD-EDITOR"
      [] name = "ppd-editor" -> "PPD-EDITOR"
      [] OTHER -> name

get_geoserver_group_name(department) == upper(get_geonode_group_name(department))

EmptyGeo ==
    [categories |-> {}, groups |-> <<>>, workspaces |-> {},
     admin_rules |-> {}, data_rules |-> {}, stores |-> {}]

\* What GeoNode and GeoServer do with a request: the new state, whether the
\* response has a success status, and the parsed body.  GeoNode's forms act
\* only within a logged-in session and refuse a name that is taken.
HttpExec(st, session, request, a, b) ==
    CASE request = "POST /en/admin/groups/groupcategory/add/" ->
            IF session /\ a \notin st.categories
            THEN [st |-> [st EXCEPT !.categories = @ \cup {a}], ok |-> TRUE, out |-> {}]
            ELSE [st |-> st, ok |-> FALSE, out |-> {}]
      [] request = "POST /groups/create/" ->
            IF session /\ a \notin DOMAIN st.groups
            THEN [st |-> [st EXCEPT !.groups = (a :> [category |-> b]) @@ @],
                  ok |-> TRUE, out |-> {}]
            ELSE [st |-> st, ok |-> FALSE, out |-> {}]
      [] request = "GET /api/groupcategory/" ->
            [st |-> st, ok |-> TRUE, out |-> st.categories]
      [] request = "GET /api/group_profile/" ->
            [st |-> st, ok |-> TRUE, out |-> DOMAIN st.groups]
      [] request = "GET /rest/workspaces" ->
            [st |-> st, ok |-> TRUE, out |-> st.workspaces]
      [] request = "POST /rest/workspaces" ->
            IF a \in st.workspaces THEN [st |-> st, ok |-> FALSE, out |-> {}]
            ELSE [st |-> [st EXCEPT !.workspaces = @ \cup {a}], ok |-> TRUE, out |-> {}]
      [] request = "GET /rest/geofence/adminrules" ->
            [st |-> st, ok |-> TRUE, out |-> {rule.roleName : rule \in st.admin_rules}]
      [] request = "POST /rest/geofence/adminrules" ->
            [st |-> [st EXCEPT !.admin_rules = @ \cup
                        {[priority |-> 0, roleName |-> b[1], workspace |-> a,
                          access |-> b[2]]}],
             ok |-> TRUE, out |-> {}]
      [] request = "POST /rest/geofence/rules" ->
            LET rule == [roleName |-> b, workspace |-> a, access |-> "ALLOW"]
            IN  IF rule \in st.data_rules THEN [st |-> st, ok |-> FALSE, out |-> {}]
                ELSE [st |-> [st EXCEPT !.data_rules = @ \cup {rule}],
                      ok |-> TRUE, out |-> {}]
      [] request = "POST /rest/workspaces/{workspace}/datastores" ->
            IF a \notin st.workspaces \/ <<a, b>> \in st.stores
            THEN [st |-> st, ok |-> FALSE, out |-> {}]
            ELSE [st |-> [st EXCEPT !.stores = @ \cup {<<a, b>>}], ok |-> TRUE, out |-> {}]
      [] OTHER -> [st |-> st, ok |-> TRUE, out |-> {}]

\* the result of (a part of) a GIS command: as Start, with the GeoNode session
StartHttp(st) ==
    [st |-> st, n |-> 0, err |-> "none", log |-> <<>>, out |-> {}, session |-> FALSE]

\* (of an admin rule, whose body is <<role name, access>>, the role name)
HttpLine(request, a, b, effect) ==
    [op |-> request, obj |-> a,
     who |-> IF request = "POST /rest/geofence/adminrules" THEN b[1] ELSE b,
     pre |-> FALSE, now |-> FALSE, effect |-> effect]

\* the result of a request that the server answered with x
Responded(r, x, req, a, b, raise_for_status) ==
    [st |-> x.st, n |-> r.n + 1,
     err |-> IF ~x.ok /\ raise_for_status THEN "HTTPStatusError" ELSE "none",
     log |-> Append(r.log, HttpLine(req, a, b,
                IF ~x.ok THEN (IF raise_for_status THEN "failed" ELSE "ignored")
                ELSE IF x.st = r.st THEN "noop" ELSE "changed")),
     out |-> x.out,
     session |-> CASE req = "POST /account/login/" -> x.ok
                   [] req = "POST /account/logout/" -> FALSE
                   [] OTHER -> r.session]

\* One request of the HTTP client.  Request k of the command (if any) fails:
\* kind "TransportError" raises in the client; kind "HTTPStatusError" is an
\* error response, which raises only where the code calls raise_for_status
\* and is otherwise taken for a success ("ignored").  Nothing runs once an
\* error is raised (r.err), here and in the operators below.
request(r, k, kind, req, a, b, raise_for_status) ==
    IF r.err # "none" THEN r
    ELSE IF r.n + 1 = k
    THEN IF kind = "HTTPStatusError" /\ ~raise_for_status
         THEN [r EXCEPT !.n = @ + 1, !.out = {},
                        !.log = Append(@, HttpLine(req, a, b, "ignored"))]
         ELSE [r EXCEPT !.n = @ + 1, !.err = kind,
                        !.log = Append(@, HttpLine(req, a, b, "failed"))]
    ELSE Responded(r, HttpExec(r.st, r.session, req, a, b), req, a, b, raise_for_status)

\* GeoNodeManager._modify_server_state: GET for the CSRF token, then POST
_modify_server_state(r, k, kind, url, a, b) ==
    request(request(r, k, kind, "GET " \o url, "", "", TRUE),
            k, kind, "POST " \o url, a, b, FALSE)

login(r, k, kind) == _modify_server_state(r, k, kind, "/account/login/", "", "")

logout(r, k, kind) == _modify_server_state(r, k, kind, "/account/logout/", "", "")

create_group_profile_category(r, k, kind, name) ==
    _modify_server_state(r, k, kind, "/en/admin/groups/groupcategory/add/", name, "")

create_group_profile(r, k, kind, name, category) ==
    _modify_server_state(r, k, kind, "/groups/create/", name, category)

\* get_editor_category_pk, from the list of the categories on
editor_category_listed(existing_categories) ==
    IF existing_categories.err # "none" THEN existing_categories
    ELSE [existing_categories EXCEPT !.out =
            IF EDITOR_GROUP_CATEGORY_NAME \in existing_categories.out
            THEN EDITOR_GROUP_CATEGORY_NAME ELSE "None"]

\* get_editor_category_pk: the category's key, "None" when there is none
get_editor_category_pk(r, k, kind) ==
    editor_category_listed(request(r, k, kind, "GET /api/groupcategory/", "", "", TRUE))

\* an admin rule that gives ADMIN access whatever the role
create_geofence_admin_rule_as_admin(r, k, kind, workspace, role_name, role) ==
    request(r, k, kind, "POST /rest/geofence/adminrules", workspace,
            <<role_name, "ADMIN">>, TRUE)

\* GeoServerManager.create_geofence_admin_rule: access.name in the rule posted
create_geofence_admin_rule(r, k, kind, workspace, role_name, role) ==
    request(r, k, kind, "POST /rest/geofence/adminrules", workspace,
            <<role_name, IF role = "EDITOR" THEN "ADMIN" ELSE "USER">>, TRUE)

create_geofence_data_rule(r, k, kind, workspace, role_name) ==
    request(r, k, kind, "POST /rest/geofence/rules", workspace, role_name, TRUE)

\* _bootstrap_department_in_geoserver, from the list of the admin rules on
geoserver_rules_listed(existing_rules, k, kind, department, role_name) ==
    request(
        IF existing_rules.err # "none" \/ role_name \in existing_rules.out
        THEN existing_rules
        ELSE create_geofence_data_rule(
                 create_geofence_admin_rule(existing_rules, k, kind, department,
                                            role_name, "EDITOR"),
                 k, kind, department, role_name),
        k, kind, "POST /rest/workspaces/{workspace}/datastores",
        department, "dominode_db_" \o department, TRUE)

\* _bootstrap_department_in_geoserver creating the workspace listed or not
geoserver_workspaces_listed_unchecked(existing_workspaces, k, kind, department) ==
    IF existing_workspaces.err # "none" THEN existing_workspaces
    ELSE geoserver_rules_listed(
             request(
                 request(existing_workspaces, k, kind, "POST /rest/workspaces",
                         department, "", TRUE),
                 k, kind, "GET /rest/geofence/adminrules", "", "", TRUE),
             k, kind, department, "ROLE_" \o get_geoserver_group_name(department))

\* _bootstrap_department_in_geoserver, from the list of the workspaces on
geoserver_workspaces_listed(existing_workspaces, k, kind, department) ==
    IF existing_workspaces.err # "none" \/ department \in existing_workspaces.out
    THEN existing_workspaces
    ELSE geoserver_rules_listed(
             request(
                 request(existing_workspaces, k, kind, "POST /rest/workspaces",
                         department, "", TRUE),
                 k, kind, "GET /rest/geofence/adminrules", "", "", TRUE),
             k, kind, department, "ROLE_" \o get_geoserver_group_name(department))

_bootstrap_department_in_geoserver(r, k, kind, department) ==
    geoserver_workspaces_listed(request(r, k, kind, "GET /rest/workspaces", "", "", TRUE),
                                k, kind, department)

geonode_add_department(r, k, kind, department, editor_category_pk) ==
    _bootstrap_department_in_geoserver(
        create_group_profile(r, k, kind, get_geonode_group_name(department),
                             editor_category_pk),
        k, kind, department)

\* the loop over the departments of geonodeadmin.bootstrap, from the i-th on
RECURSIVE geonode_departments(_, _, _, _, _, _, _)
\* the loop that would take every department's password for configured
geonode_departments_unchecked(r, k, kind, cfg, existing_group_names, editor_category_pk, i) ==
    IF i > Len(get_departments) \/ r.err # "none" THEN r
    ELSE geonode_departments(
             IF get_geonode_group_name(get_departments[i]) \notin existing_group_names
             THEN geonode_add_department(r, k, kind, get_departments[i], editor_category_pk)
             ELSE r,
             k, kind, cfg, existing_group_names, editor_category_pk, i + 1)

geonode_departments(r, k, kind, cfg, existing_group_names, editor_category_pk, i) ==
    IF i > Len(get_departments) \/ r.err # "none" THEN r
    ELSE IF get_departments[i] \notin cfg
    THEN [r EXCEPT !.err = "RuntimeError",
                   !.log = Append(@, HttpLine("config", get_departments[i], "", "failed"))]
    ELSE geonode_departments(
             IF get_geonode_group_name(get_departments[i]) \notin existing_group_names
             THEN geonode_add_department(r, k, kind, get_departments[i], editor_category_pk)
             ELSE r,
             k, kind, cfg, existing_group_names, editor_category_pk, i + 1)

\* geonodeadmin.bootstrap, from the list of the group profiles on
bootstrap_groups_listed(existing_groups, k, kind, cfg, editor_category_pk) ==
    IF existing_groups.err # "none" THEN existing_groups
    ELSE logout(
             create_group_profile(
                 geonode_departments(existing_groups, k, kind, cfg, existing_groups.out,
                                     editor_category_pk, 1),
                 k, kind, INTERNAL_GEONODE_GROUP_NAME, "None"),
             k, kind)

\* geonodeadmin.bootstrap, with the key of the editor category
bootstrap_with_category(pk, k, kind, cfg) ==
    IF pk.err # "none" THEN pk
    ELSE bootstrap_groups_listed(
             request(pk, k, kind, "GET /api/group_profile/", "", "", TRUE),
             k, kind, cfg, pk.out)

\* geonodeadmin.bootstrap, from the first look for the editor category on
bootstrap_category(pk, k, kind, cfg) ==
    IF pk.err # "none" THEN pk
    ELSE bootstrap_with_category(
             IF pk.out # "None" THEN pk
             ELSE get_editor_category_pk(
                      create_group_profile_category(pk, k, kind, EDITOR_GROUP_CATEGORY_NAME),
                      k, kind),
             k, kind, cfg)

\* geonodeadmin.bootstrap, inside `with httpx.Client()`
geonode_bootstrap(r, k, kind, cfg) ==
    bootstrap_category(get_editor_category_pk(login(r, k, kind), k, kind), k, kind, cfg)

-----------------------------------------------------------------------------
(* Inputs of the commands *)

UserRoles == {"REGULAR_DEPARTMENT_USER", "EDITOR"}

UserInput(username, password, departments, role, is_topomap_editor) ==
    [username |-> username, password |-> password, departments |-> departments,
     role |-> role, is_topomap_editor |-> is_topomap_editor]

\* the add-department-user invocations of the model: one account, asked for
\* with different passwords, departments, roles and topomap flags
UserInputs ==
    {UserInput("u1", "pw1", <<"lsd">>, "REGULAR_DEPARTMENT_USER", FALSE),
     UserInput("u1", "pw2", <<"ppd", "lsd">>, "EDITOR", TRUE),
     UserInput("u1", "pw1", <<"ppd">>, "EDITOR", FALSE)}

\* the storage add-department-user invocations of the model (password: the
\* user's secret key); one of the users has the access key that
\* create_temp_user takes
MinioUserInputs ==
    {UserInput("u1", "u1-secret-key", <<"ppd">>, "REGULAR_DEPARTMENT_USER", FALSE),
     UserInput("u1", "another-secret", <<"ppd", "lsd">>, "EDITOR", FALSE),
     UserInput("u2", "u2-secret-key", <<"lsd", "ppd">>, "EDITOR", FALSE),
     UserInput("tempuser", "temp-secret-key", <<"lsd">>, "REGULAR_DEPARTMENT_USER", FALSE)}

\* the administrator's secret key: the default of the configuration, and a longer one
AdminSecretKeys == {"admin", "admin-secret"}

\* the errors an injected fault raises in a database call: the connection is
\* lost (OperationalError) or the server reports an internal error
DbFaultKinds == {"OperationalError", "InternalError"}

\* failed connection attempts before the command's body runs
ConnFailures == {0, max_tries - 1, max_tries}

\* the record of the last command: the call that an injected fault made raise
\* (fault, 0: none), the failed attempts to connect, the error of the body,
\* whether the command returned or raised, the calls it made, whether it
\* changed the backend, and whether it is the immediate re-run of the same
\* command with the same arguments, both runs without injected fault (again;
\* prev_err is then the error of the first run)
NoCommand ==
    [cmd |-> "", arg |-> <<>>, fault |-> 0, conn_failures |-> 0, err |-> "none",
     outcome |-> "returned", log |-> <<>>, changed |-> FALSE,
     again |-> FALSE, prev_err |-> "none", stages |-> <<>>]

Clean(c) == c.fault = 0 /\ c.conn_failures = 0

\* after a run of a command that an injected fault (at call `at`) made fail:
\* the command, the log of the failed run, and the backend state a single
\* fault-free run would have left instead (st); kept over the re-run of the
\* same command that follows at once
NoPending == [cmd |-> "", arg |-> <<>>, at |-> 0, log |-> <<>>, st |-> EmptyDb]

NextPending(cmd, arg, k, log, expected) ==
    IF pending.cmd = cmd /\ pending.arg = arg /\ last.fault > 0
    THEN pending
    ELSE IF k > 0
         THEN [cmd |-> cmd, arg |-> arg, at |-> k, log |-> log, st |-> expected]
         ELSE NoPending

-----------------------------------------------------------------------------
(* The database commands as actions *)

\* A database command `cmd` with argument `arg` whose calls are `prog`:
\* call k raises `kind` (k = 0: no injected fault), after conn_failures
\* failed attempts to connect.
DbCommand(cmd, arg, prog) ==
    \E run \in {RunOps(db, db, config, prog, 1)} :
        \E k \in 0..Len(run), kind \in DbFaultKinds \cup {"none"}, cf \in ConnFailures :
          LET injected == k > 0
          IN  /\ injected => faults < MaxFaults
              /\ injected <=> kind # "none"
              /\ cf = max_tries => ~injected
              /\ cf = max_tries - 1 => kind = "OperationalError"
              /\ \E r \in {get_db_connection(db, RunBody(run, db, prog, k, kind), cf)} :
                     /\ db' = r.db
                     /\ last' = [cmd |-> cmd, arg |-> arg, fault |-> k,
                                 conn_failures |-> cf, err |-> r.err,
                                 outcome |-> r.outcome, log |-> r.log,
                                 changed |-> (r.db # db),
                                 again |-> /\ ~injected /\ cf = 0 /\ Clean(last)
                                           /\ last.cmd = cmd /\ last.arg = arg,
                                 prev_err |-> last.err, stages |-> <<"db">>]
              /\ faults' = IF injected THEN faults + 1 ELSE faults
              /\ pending' = NextPending(cmd, arg, k, RunBody(run, db, prog, k, kind).log,
                                         RunBody(run, db, prog, 0, "none").db)
              /\ UNCHANGED <<config, minio, geo, given, generated>>

DbBootstrap == DbCommand("db.bootstrap", <<>>, db_bootstrap)

DbAddDepartment ==
    \E department \in Departments :
        DbCommand("db.add_department", <<department>>, db_add_department(department))

DbAddDepartmentUser ==
    \E u \in UserInputs :
        DbCommand("db.add_department_user",
                  <<u.username, u.password, u.role>> \o u.departments
                      \o (IF u.is_topomap_editor THEN <<"topomap">> ELSE <<>>),
                  db_add_department_user(u.username, u.password, u.departments,
                                         u.role, u.is_topomap_editor))

-----------------------------------------------------------------------------
(* The storage commands as actions *)

\* the command `cmd` of the storage application, run from r with arguments
\* `arg`; call k of the run exits non-zero (k = 0: no injected fault)
MinioRun(cmd, arg, r, k) ==
    CASE cmd = "minio.bootstrap" -> minio_bootstrap(r, k)
      [] cmd = "minio.add_department" -> minio_add_department(r, k, arg[1])
      [] cmd = "minio.add_department_user" ->
            minio_add_department_user(r, k, arg[1], arg[2], SubSeq(arg, 5, Len(arg)),
                                      arg[3], arg[4])
      [] cmd = "minio.create_user" ->
            minio_create_user(r, k, arg[1], arg[2], arg[3], arg[4] = "force")
      [] cmd = "minio.create_group" -> create_group(r, k, arg[1], arg[2])
      [] cmd = "MinioManager.add_policy" ->
            add_policy(r, k, get_policy_name(arg[1], Tail(arg)),
                       IF arg[1] = "EDITOR" THEN get_editor_policy(Tail(arg))
                       ELSE get_user_policy(Tail(arg)))
      [] cmd = "MinioManager.set_policy" -> set_policy(r, k, arg[1], arg[2], arg[3])

MinioCommand(cmd, arg) ==
    \E r0 \in {MinioRun(cmd, arg, Start(minio), 0)} :
        \E k \in 0..r0.n :
            /\ k > 0 => faults < MaxFaults
            /\ \E r \in {MinioRun(cmd, arg, Start(minio), k)} :
                 /\ minio' = r.st
                 /\ last' = [cmd |-> cmd, arg |-> arg, fault |-> k, conn_failures |-> 0,
                             err |-> r.err,
                             outcome |-> IF r.err = "none" THEN "returned" ELSE "raised",
                             log |-> r.log, changed |-> (r.st # minio),
                             again |-> k = 0 /\ Clean(last) /\ last.cmd = cmd /\ last.arg = arg,
                             prev_err |-> last.err, stages |-> <<"minio">>]
                 /\ pending' = NextPending(cmd, arg, k, r.log, r0.st)
            /\ faults' = IF k > 0 THEN faults + 1 ELSE faults
            /\ UNCHANGED <<config, db, geo, given, generated>>

MinioBootstrap == MinioCommand("minio.bootstrap", <<>>)

MinioAddDepartment ==
    \E name \in Departments : MinioCommand("minio.add_department", <<name>>)

MinioAddDepartmentUser ==
    \E u \in MinioUserInputs, secret_key \in AdminSecretKeys :
        MinioCommand("minio.add_department_user",
                     <<u.username, u.password, u.role, secret_key>> \o u.departments)

\* the bucket commands and the user command act on disjoint parts of the server
NextMinioBuckets == MinioBootstrap \/ MinioAddDepartment

NextMinio == MinioAddDepartmentUser

\* The functions and methods of minioadmin.py called one by one, with these
\* arguments: access keys (one of them the temporary user's), secret keys
\* shorter and longer than 8 characters, one group, the policies of lsd.
ManagerUsers == {"alice", "tempuser"}

ManagerSecrets == {"secret", "alice-secret-key"}

ManagerGroups == {"lsd-regular-user-group-policy-user-group"}

\* create_user(user_access_key, user_secret_key, secret_key, force)
CreateUser ==
    \E user_access_key \in ManagerUsers, user_secret_key \in ManagerSecrets :
        \E secret_key \in AdminSecretKeys, force \in {"", "force"} :
            MinioCommand("minio.create_user",
                         <<user_access_key, user_secret_key, secret_key, force>>)

\* create_group(group, secret_key)
CreateGroup ==
    \E group \in ManagerGroups, secret_key \in AdminSecretKeys :
        MinioCommand("minio.create_group", <<group, secret_key>>)

\* MinioManager.add_policy of the policy generated for a role and lsd
AddPolicy ==
    \E role \in UserRoles : MinioCommand("MinioManager.add_policy", <<role, "lsd">>)

\* MinioManager.set_policy(policy, user, group); "" stands for None
SetPolicy ==
    \E role \in UserRoles, user \in {"", "alice"}, group \in ManagerGroups \cup {""} :
        MinioCommand("MinioManager.set_policy",
                     <<get_policy_name(role, <<"lsd">>), user, group>>)

NextMinioManager == CreateUser \/ CreateGroup \/ AddPolicy \/ SetPolicy

-----------------------------------------------------------------------------
(* The GIS commands as actions *)

\* the errors an injected fault raises in an HTTP request
HttpFaultKinds == {"TransportError", "HTTPStatusError"}

\* the command `cmd` of the GIS application, run from r; request k of the
\* run fails with `kind` (k = 0: no injected fault)
GeoRun(cmd, arg, r, k, kind) ==
    CASE cmd = "geonode.bootstrap" -> geonode_bootstrap(r, k, kind, config)
      [] cmd = "GeoServerManager.create_geofence_admin_rule" ->
            create_geofence_admin_rule(r, k, kind, arg[1], arg[2], arg[3])

GeoCommand(cmd, arg) ==
    \E r0 \in {GeoRun(cmd, arg, StartHttp(geo), 0, "none")} :
        \E k \in 0..r0.n, kind \in HttpFaultKinds \cup {"none"} :
            /\ k > 0 => faults < MaxFaults
            /\ k > 0 <=> kind # "none"
            /\ \E r \in {GeoRun(cmd, arg, StartHttp(geo), k, kind)} :
                 /\ geo' = r.st
                 /\ last' = [cmd |-> cmd, arg |-> arg, fault |-> k, conn_failures |-> 0,
                             err |-> r.err,
                             outcome |-> IF r.err = "none" THEN "returned" ELSE "raised",
                             log |-> r.log, changed |-> (r.st # geo),
                             again |-> k = 0 /\ Clean(last) /\ last.cmd = cmd /\ last.arg = arg,
                             prev_err |-> last.err, stages |-> <<"geonode">>]
                 /\ pending' = NextPending(cmd, arg, k, r.log, r0.st)
            /\ faults' = IF k > 0 THEN faults + 1 ELSE faults
            /\ UNCHANGED <<config, db, minio, given, generated>>

GeonodeBootstrap == GeoCommand("geonode.bootstrap", <<>>)

NextGeo == GeonodeBootstrap

\* a call of GeoServerManager.create_geofence_admin_rule for a department's
\* workspace and GeoServer role, with either role of a user
CreateGeofenceAdminRule ==
    \E department \in Departments, role \in UserRoles :
        GeoCommand("GeoServerManager.create_geofence_admin_rule",
                   <<department, "ROLE_" \o get_geoserver_group_name(department), role>>)

NextGeoServer == GeonodeBootstrap \/ CreateGeofenceAdminRule

-----------------------------------------------------------------------------
(* The top-level bootstrap: dominodeadmin.py *)

Stages == <<"db", "minio", "geonode">>

\* dominodeadmin.bootstrap, the storage bootstrap done
bootstrap_gis(database, storage, g, cfg, k, kind, n) ==
    IF storage.err # "none"
    THEN [db |-> database.db, minio |-> storage.st, geo |-> g,
          err |-> IF database.err # "none" THEN database.err ELSE storage.err,
          outcome |-> "raised", log |-> database.log \o storage.log,
          stages |-> SubSeq(Stages, 1, 2), calls |-> <<n, storage.n, 0>>]
    ELSE \* geonodeadmin.bootstrap
         LET gis == geonode_bootstrap(StartHttp(g), k, kind, cfg)
         IN  [db |-> database.db, minio |-> storage.st, geo |-> gis.st,
              err |-> IF database.err # "none" THEN database.err ELSE gis.err,
              outcome |-> IF gis.err = "none" THEN "returned" ELSE "raised",
              log |-> database.log \o storage.log \o gis.log,
              stages |-> Stages, calls |-> <<n, storage.n, gis.n>>]

\* dominodeadmin.bootstrap, the database bootstrap done
bootstrap_storage(database, m, g, cfg, stage, k, kind, n) ==
    IF database.outcome = "raised"
    THEN [db |-> database.db, minio |-> m, geo |-> g, err |-> database.err,
          outcome |-> "raised", log |-> database.log, stages |-> SubSeq(Stages, 1, 1),
          calls |-> <<n, 0, 0>>]
    ELSE bootstrap_gis(database,
                       minio_bootstrap(Start(m), IF stage = "minio" THEN k ELSE 0),
                       g, cfg, IF stage = "geonode" THEN k ELSE 0, kind, n)

\* dominodeadmin.bootstrap from the backends d, m, g: the bootstrap of the
\* database, then of the storage, then of the GIS backend; each starts once
\* the one before has returned.  `run` is the fault-free run of the database
\* bootstrap from d; call k of the stage `stage` fails with `kind`.
bootstrap(run, d, m, g, cfg, stage, k, kind, conn_failures) ==
    bootstrap_storage(
        get_db_connection(d, RunBody(run, d, db_bootstrap,
                                     IF stage = "db" THEN k ELSE 0,
                                     IF stage = "db" THEN kind ELSE "none"),
                          conn_failures),
        m, g, cfg, stage, k, kind, Len(run))

\* the errors an injected fault raises in a call of a stage
StageFaultKinds(stage) ==
    CASE stage = "db" -> DbFaultKinds
      [] stage = "minio" -> {"CalledProcessError"}
      [] stage = "geonode" -> HttpFaultKinds
      [] OTHER -> {"none"}

Bootstrap ==
    \E run \in {RunOps(db, db, config, db_bootstrap, 1)} :
      \E r0 \in {bootstrap(run, db, minio, geo, config, "none", 0, "none", 0)} :
        \E i \in 0..Len(Stages), cf \in ConnFailures :
          \E stage \in {IF i = 0 THEN "none" ELSE Stages[i]} :
            \E k \in (IF i = 0 THEN {0} ELSE 1..r0.calls[i]), kind \in StageFaultKinds(stage) :
              /\ i > 0 => faults < MaxFaults
              /\ cf = max_tries => i = 0
              /\ cf = max_tries - 1 => stage = "db" /\ kind = "OperationalError"
              /\ \E r \in {bootstrap(run, db, minio, geo, config, stage, k, kind, cf)} :
                   /\ db' = r.db
                   /\ minio' = r.minio
                   /\ geo' = r.geo
                   /\ last' = [cmd |-> "bootstrap", arg |-> <<>>, fault |-> k,
                               conn_failures |-> cf, err |-> r.err, outcome |-> r.outcome,
                               log |-> r.log,
                               changed |-> <<r.db, r.minio, r.geo>> # <<db, minio, geo>>,
                               again |-> /\ i = 0 /\ cf = 0 /\ Clean(last)
                                         /\ last.cmd = "bootstrap",
                               prev_err |-> last.err, stages |-> r.stages]
                   /\ pending' = NextPending("bootstrap", <<>>, k, r.log,
                                             <<r0.db, r0.minio, r0.geo>>)
              /\ faults' = IF i > 0 THEN faults + 1 ELSE faults
              /\ UNCHANGED <<config, given, generated>>

\* the department list of a generator call and the same departments in
\* another (or the same) order
IsReordered(a, b) ==
    /\ Len(a) = Len(b)
    /\ \E f \in [1..Len(a) -> 1..Len(a)] :
           /\ \A i, j \in 1..Len(a) : f[i] = f[j] => i = j
           /\ b = [i \in 1..Len(a) |-> a[f[i]]]

DepartmentLists == UNION {[1..n -> Departments] : n \in 0..MaxDepartments}

PolicyInputs ==
    {pair \in [first : DepartmentLists, reordered : DepartmentLists] :
        IsReordered(pair.first, pair.reordered)}

NoDepartments == [first |-> <<>>, reordered |-> <<>>]

Orders == {"first", "reordered"}

\* get_user_policy(departments) called with the list in one of its orders
GetUserPolicy ==
    \E order \in Orders :
        /\ <<"get_user_policy", order>> \notin DOMAIN generated
        /\ generated' = (<<"get_user_policy", order>> :> get_user_policy(given[order]))
                            @@ generated
        /\ UNCHANGED <<config, db, minio, geo, last, pending, faults, given>>

\* get_editor_policy(departments) called with the list in one of its orders
GetEditorPolicy ==
    \E order \in Orders :
        /\ <<"get_editor_policy", order>> \notin DOMAIN generated
        /\ generated' = (<<"get_editor_policy", order>> :> get_editor_policy(given[order]))
                            @@ generated
        /\ UNCHANGED <<config, db, minio, geo, last, pending, faults, given>>

Init ==
    /\ config \in {Departments, Departments \ {"ppd"}}
    /\ db = EmptyDb
    /\ minio = EmptyMinio
    /\ geo = EmptyGeo
    /\ last = NoCommand
    /\ pending = NoPending
    /\ faults = 0
    /\ given = NoDepartments
    /\ generated = <<>>

NextDb == DbBootstrap \/ DbAddDepartment \/ DbAddDepartmentUser

SpecDb == Init /\ [][NextDb]_vars

SpecMinio == Init /\ [][NextMinio]_vars

SpecMinioBuckets == Init /\ [][NextMinioBuckets]_vars

SpecMinioManager == Init /\ [][NextMinioManager]_vars

SpecGeo == Init /\ [][NextGeo]_vars

SpecGeoServer == Init /\ [][NextGeoServer]_vars

\* the storage add_department_user for one user, asked for with different
\* departments and roles, by an administrator whose key create_user accepts
MinioAddOneUser ==
    \E u \in {v \in MinioUserInputs : v.username = "u1"} :
        MinioCommand("minio.add_department_user",
                     <<u.username, u.password, u.role, "admin-secret">> \o u.departments)

\* the commands that create workspaces and storage policies
NextGeoAndMinio == NextGeo \/ MinioAddOneUser

SpecGeoAndMinio == Init /\ [][NextGeoAndMinio]_vars

SpecTop == Init /\ [][Bootstrap]_vars

\* add_department_user naming the policy and the group of a role for the
\* department list in one of its orders
NamePolicyAndGroup ==
    \E role \in UserRoles, order \in Orders :
        /\ <<role, order>> \notin DOMAIN generated
        /\ generated' = (<<role, order>> :>
                            [policy_name |-> get_policy_name(role, given[order]),
                             group_name |-> get_group_name(
                                 role, get_policy_name(role, given[order]))])
                            @@ generated
        /\ UNCHANGED <<config, db, minio, geo, last, pending, faults, given>>

\* the policy generators called on every department list up to MaxDepartments
InitPolicy ==
    /\ config = Departments
    /\ db = EmptyDb
    /\ minio = EmptyMinio
    /\ geo = EmptyGeo
    /\ last = NoCommand
    /\ pending = NoPending
    /\ faults = 0
    /\ given \in PolicyInputs
    /\ generated = <<>>

NextPolicy == GetUserPolicy \/ GetEditorPolicy \/ NamePolicyAndGroup

SpecPolicy == InitPolicy /\ [][NextPolicy]_vars

\* department names that a configuration section can carry: the default
\* ones and names close to the fixed names of the backends
DepartmentStrings == {"lsd", "ppd", "LSD", "dominode", "lsd_topomap", "public"}

\* the names bootstrap_department derives for a department
bootstrap_department_names(department) ==
    [user_role |-> bootstrap_department(department)[1].obj,
     editor_role |-> bootstrap_department(department)[2].obj,
     staging_schema_name |-> bootstrap_department(department)[3].obj,
     geoserver_db_username |-> get_geoserver_db_username(department)]

\* the bucket and directory names minioadmin.add_department derives
add_department_names(department) ==
    [staging_bucket |-> get_staging_bucket_name(department),
     staging_dir |-> get_dominode_staging_root_dir_name(department),
     public_dir |-> get_public_root_dir_name(department)]

Which == {"d1", "d2"}

\* the database names of one of the two departments are derived
DeriveDbNames ==
    \E which \in Which :
        /\ <<"db", which>> \notin DOMAIN generated
        /\ generated' = (<<"db", which>> :> bootstrap_department_names(given[which]))
                            @@ generated
        /\ UNCHANGED <<config, db, minio, geo, last, pending, faults, given>>

\* the storage names of one of the two departments are derived
DeriveStorageNames ==
    \E which \in Which :
        /\ <<"minio", which>> \notin DOMAIN generated
        /\ generated' = (<<"minio", which>> :> add_department_names(given[which]))
                            @@ generated
        /\ UNCHANGED <<config, db, minio, geo, last, pending, faults, given>>

\* the GeoNode group name of one of the two departments is derived
DeriveGisNames ==
    \E which \in Which :
        /\ <<"geonode", which>> \notin DOMAIN generated
        /\ generated' = (<<"geonode", which>> :>
                             [geonode_group_name |-> get_geonode_group_name(given[which])])
                            @@ generated
        /\ UNCHANGED <<config, db, minio, geo, last, pending, faults, given>>

\* the naming functions called on every pair of department names
InitNaming ==
    /\ config = Departments
    /\ db = EmptyDb
    /\ minio = EmptyMinio
    /\ geo = EmptyGeo
    /\ last = NoCommand
    /\ pending = NoPending
    /\ faults = 0
    /\ given \in [d1 : DepartmentStrings, d2 : DepartmentStrings]
    /\ generated = <<>>

NextNaming == DeriveDbNames \/ DeriveStorageNames \/ DeriveGisNames

SpecNaming == InitNaming /\ [][NextNaming]_vars

\* section names: of the default configuration, of departments with one
\* and with two words, and names that merely contain the word department
SectionNames ==
    {<<"db">>, <<"dominode">>, <<"department">>, <<"lsd", "department">>,
     <<"ppd", "department">>, <<"lsd", "departments">>,
     <<"land", "survey", "department">>, <<"land", "registry", "department">>}

\* config.sections(): lists of distinct section names
SectionLists ==
    {sections \in UNION {[1..n -> SectionNames] : n \in 0..MaxSections} :
        \A i, j \in 1..Len(sections) : sections[i] = sections[j] => i = j}

GetDepartments ==
    /\ "get_departments" \notin DOMAIN generated
    /\ generated' = ("get_departments" :> sections_departments(given.sections))
                        @@ generated
    /\ UNCHANGED <<config, db, minio, geo, last, pending, faults, given>>

\* get_departments called on every list of sections up to MaxSections
InitSections ==
    /\ config = Departments
    /\ db = EmptyDb
    /\ minio = EmptyMinio
    /\ geo = EmptyGeo
    /\ last = NoCommand
    /\ pending = NoPending
    /\ faults = 0
    /\ given \in [sections : SectionLists]
    /\ generated = <<>>

NextSections == GetDepartments

SpecSections == InitSections /\ [][NextSections]_vars

\* get_db_connection step by step.  Its state: where the generator is (at:
\* "while", the loop's test; "yield", inside the caller's with block;
\* "returned"; "raised"), the loop's variables, the attempts to connect made,
\* the pauses slept, the connections yielded, and the error raised.
ConnectionStart ==
    [at |-> "while", connected |-> FALSE, current_try |-> 0, attempts |-> 0,
     pauses |-> <<>>, yielded |-> 0, err |-> "none"]

\* a handler that sleeps and never raises
except_OperationalError_never_raising(c) ==
    [c EXCEPT !.current_try = @ + 1, !.pauses = Append(@, sleep_for), !.at = "while"]

\* except OperationalError: count the try, then sleep or raise
except_OperationalError(c) ==
    IF c.current_try + 1 < max_tries
    THEN [c EXCEPT !.current_try = @ + 1, !.pauses = Append(@, sleep_for),
                   !.at = "while"]
    ELSE [c EXCEPT !.current_try = @ + 1, !.at = "raised", !.err = "OperationalError"]

\* while not connected and current_try < max_tries
while_continues(c) == ~c.connected /\ c.current_try < max_tries

\* engine.connect() raises OperationalError
EngineConnectFails ==
    /\ generated.at = "while" /\ while_continues(generated)
    /\ generated' = except_OperationalError([generated EXCEPT !.attempts = @ + 1])
    /\ UNCHANGED <<config, db, minio, geo, last, pending, faults, given>>

\* engine.connect() gives a connection, which is yielded
EngineConnects ==
    /\ generated.at = "while" /\ while_continues(generated)
    /\ generated' = [generated EXCEPT !.attempts = @ + 1, !.connected = TRUE,
                                      !.yielded = @ + 1, !.at = "yield"]
    /\ UNCHANGED <<config, db, minio, geo, last, pending, faults, given>>

\* the caller's with block ends, normally or with an error raised at the yield
BodyEnds ==
    /\ generated.at = "yield"
    /\ \E kind \in DbFaultKinds \cup {"none"} :
           generated' =
               CASE kind = "none" -> [generated EXCEPT !.at = "while"]
                 [] kind = "OperationalError" -> except_OperationalError(generated)
                 [] OTHER -> [generated EXCEPT !.at = "raised", !.err = kind]
    /\ UNCHANGED <<config, db, minio, geo, last, pending, faults, given>>

\* the loop's test fails: the generator returns
LoopEnds ==
    /\ generated.at = "while" /\ ~while_continues(generated)
    /\ generated' = [generated EXCEPT !.at = "returned"]
    /\ UNCHANGED <<config, db, minio, geo, last, pending, faults, given>>

InitConnection ==
    /\ config = Departments
    /\ db = EmptyDb
    /\ minio = EmptyMinio
    /\ geo = EmptyGeo
    /\ last = NoCommand
    /\ pending = NoPending
    /\ faults = 0
    /\ given = NoDepartments
    /\ generated = ConnectionStart

NextConnection == EngineConnectFails \/ EngineConnects \/ BodyEnds \/ LoopEnds

SpecConnection == InitConnection /\ [][NextConnection]_vars

\* Two invocations of database commands at the same time, each with its own
\* connection.  Each runs its calls in order; a create_role is two steps, the
\* query of check_for_role and the CREATE ROLE statement, and the other
\* invocation may act between them.  Of an invocation: the call it is at (i),
\* what its check_for_role saw for that call (observed), the roles it has
\* issued CREATE ROLE for (issued), and the error that ended it (err).
Invocations == {"p1", "p2"}

InvocationStart == [i |-> 1, observed |-> "unknown", issued |-> {}, err |-> "none"]

\* the commands the two invocations run
ConcurrentPrograms ==
    {db_bootstrap, db_add_department("lsd")}
        \cup {db_add_department_user(u.username, u.password, u.departments,
                                     u.role, u.is_topomap_editor) : u \in UserInputs}

\* the invocation has a call left to make
Running(p) == generated[p].err = "none" /\ generated[p].i <= Len(given[p])

\* create_role: the query of check_for_role
CheckForRole ==
    \E p \in Invocations :
        /\ Running(p)
        /\ given[p][generated[p].i].op = "create_role"
        /\ generated[p].observed = "unknown"
        /\ generated' =
               [generated EXCEPT ![p] =
                   IF check_for_role(given[p][generated[p].i].obj, db)
                   THEN [@ EXCEPT !.i = @ + 1]
                   ELSE [@ EXCEPT !.observed = "absent"]]
        /\ UNCHANGED <<config, db, minio, geo, last, pending, faults, given>>

\* create_role: the CREATE ROLE statement, after the check saw no such role
IssueCreateRole ==
    \E p \in Invocations :
        /\ Running(p)
        /\ generated[p].observed = "absent"
        /\ \E s \in {[given[p][generated[p].i] EXCEPT !.op = "CREATE ROLE"]} :
               /\ db' = IF SqlAccepted(db, s) THEN SqlApply(db, s) ELSE db
               /\ generated' =
                      [generated EXCEPT ![p] =
                          [i |-> IF SqlAccepted(db, s) THEN @.i + 1 ELSE @.i,
                           observed |-> "unknown",
                           issued |-> @.issued \cup {s.obj},
                           err |-> IF SqlAccepted(db, s) THEN "none"
                                   ELSE "ProgrammingError"]]
        /\ UNCHANGED <<config, minio, geo, last, pending, faults, given>>

\* any other call of the command
IssueStatement ==
    \E p \in Invocations :
        /\ Running(p)
        /\ given[p][generated[p].i].op # "create_role"
        /\ \E r \in {ExecOp(db, db, config, given[p][generated[p].i])} :
               /\ db' = r.db
               /\ generated' =
                      [generated EXCEPT ![p] =
                          [@ EXCEPT !.i = IF r.err = "none" THEN @ + 1 ELSE @,
                                    !.err = r.err]]
        /\ UNCHANGED <<config, minio, geo, last, pending, faults, given>>

InitConcurrent ==
    /\ config = Departments
    /\ db = EmptyDb
    /\ minio = EmptyMinio
    /\ geo = EmptyGeo
    /\ last = NoCommand
    /\ pending = NoPending
    /\ faults = 0
    /\ given \in [Invocations -> ConcurrentPrograms]
    /\ generated = [p \in Invocations |-> InvocationStart]

NextConcurrent == CheckForRole \/ IssueCreateRole \/ IssueStatement

SpecConcurrent == InitConcurrent /\ [][NextConcurrent]_vars

\* GeoNodeManager._list_items_from_geonode_rest_api request by request, on a
\* server where the listing of each endpoint has given.pages[endpoint]
\* pages; page j of an endpoint holds the object <<endpoint, j>> and its
\* 'next' is the URL of page j + 1, null (NoUrl) on the last page.
Endpoints == {"/group_profile", "/groupcategory"}

NoUrl == [endpoint |-> "", page |-> 0]

\* url = pagination_url or f'{self.base_url}/api{endpoint}/'
listing_url(endpoint, pagination_url) ==
    IF pagination_url # NoUrl THEN pagination_url ELSE [endpoint |-> endpoint, page |-> 1]

\* get_existing_group_profiles(pagination_url): the URL its listing starts at
get_existing_group_profiles(pagination_url) == listing_url("/group_profile", NoUrl)

\* payload['meta']['next'] of the page at this URL
next_page(url, pages) ==
    IF url.page < pages[url.endpoint]
    THEN [endpoint |-> url.endpoint, page |-> url.page + 1]
    ELSE NoUrl

\* one call of _list_items_from_geonode_rest_api: the GET of the page; then
\* the objects are returned to the callers, or the recursive call is made
GetPage ==
    /\ generated.at = "get"
    /\ generated.requests < MaxRequests
    /\ generated' =
           IF next_page(generated.url, given.pages) = NoUrl
           THEN [generated EXCEPT
                    !.at = "returned", !.requests = @ + 1,
                    !.objects = Append(@, <<generated.url.endpoint, generated.url.page>>)]
           ELSE [generated EXCEPT
                    !.requests = @ + 1,
                    !.objects = Append(@, <<generated.url.endpoint, generated.url.page>>),
                    !.url = get_existing_group_profiles(
                                next_page(generated.url, given.pages))]
    /\ UNCHANGED <<config, db, minio, geo, last, pending, faults, given>>

\* the listing of an endpoint called on servers with 1..MaxPages pages
InitListing ==
    /\ config = Departments
    /\ db = EmptyDb
    /\ minio = EmptyMinio
    /\ geo = EmptyGeo
    /\ last = NoCommand
    /\ pending = NoPending
    /\ faults = 0
    /\ given \in [endpoint : Endpoints, pages : [Endpoints -> 1..MaxPages]]
    /\ generated = [at |-> "get", url |-> listing_url(given.endpoint, NoUrl),
                    objects |-> <<>>, requests |-> 0]

NextListing == GetPage

SpecListing == InitListing /\ [][NextListing]_vars

\* the commands and functions that act on the backends; the functions that
\* only compute a value from their arguments have the specifications above
Next ==
    \/ NextDb \/ NextMinioBuckets \/ NextMinio \/ NextGeoServer \/ Bootstrap
    \/ NextPolicy \/ NextMinioManager

Spec == Init /\ [][Next]_vars

-----------------------------------------------------------------------------
(* Properties of the database commands *)

\* the statement of a log line was sent to the database
Issued(e) == e.effect \notin {"skipped", "check failed", "read"} /\ e.op # "config"

CreationOps == {"CREATE ROLE", "CREATE SCHEMA IF NOT EXISTS", "CREATE SCHEMA",
                "CREATE TABLE IF NOT EXISTS"}

PermissionOps == {"GRANT ON SCHEMA", "ALTER TABLE OWNER TO", "REVOKE UPDATE", "GRANT SELECT"}

\* the last command was bootstrap_department(d), for some d (db add-department)
RanBootstrapDepartment == last.cmd = "db.add_department"

\* ... run for the second time in succession, both runs without injected fault
RanBootstrapDepartmentAgain == RanBootstrapDepartment /\ last.again

\* C1: over any sequence of database commands, CREATE ROLE is issued for a
\* role only when that role does not exist, and a role that exists stays, with
\* the parent roles and options it was created with.
C1_RoleCreatedOnlyWhenAbsent ==
    [][/\ \A i \in 1..Len(last'.log) :
            (last'.log[i].op = "CREATE ROLE" /\ Issued(last'.log[i])) => ~last'.log[i].now
       /\ \A r \in DOMAIN db.roles :
            r \in DOMAIN db'.roles /\ db'.roles[r] = db.roles[r]]_vars

\* add_department_user for a role that exists, asking for another password:
\* CREATE ROLE is skipped and the role keeps its first password
C1_Witness ==
    /\ last.cmd = "db.add_department_user"
    /\ last.err = "none"
    /\ Len(last.log) = 1
    /\ last.log[1].effect = "skipped"
    /\ ("PASSWORD " \o last.arg[2]) \notin db.roles[last.arg[1]].opts

\* C2: bootstrap_department(d) run twice in succession leaves the database
\* (roles, memberships, schemas, owners, tables, grants) as the first run left it.
C2_SecondRunChangesNothing ==
    RanBootstrapDepartmentAgain => ~last.changed

\* the second run of bootstrap_department('lsd') on the fully provisioned department
C2_Witness ==
    /\ RanBootstrapDepartmentAgain
    /\ last.arg = <<"lsd">>
    /\ last.err = "none"
    /\ "lsd_topomaps.qgis_projects" \in DOMAIN db.tables
    /\ db.tables["lsd_topomaps.qgis_projects"].noUpdate

\* C3 as stated: the second run of bootstrap_department(d) issues no creation
\* statement, every role, schema and table step is skipped after a check.
C3_NoCreationStatementIssued ==
    (RanBootstrapDepartmentAgain /\ last.prev_err = "none") =>
        \A i \in 1..Len(last.log) :
            last.log[i].op \in CreationOps => ~Issued(last.log[i])

\* C3, amended: the second run of bootstrap_department(d) after a successful
\* one creates nothing: every CREATE ROLE is skipped after the existence
\* check, and the CREATE SCHEMA / CREATE TABLE statements, issued with
\* IF NOT EXISTS for objects that exist, change nothing.
C3_SecondRunCreatesNothing ==
    (RanBootstrapDepartmentAgain /\ last.prev_err = "none") =>
        \A i \in 1..Len(last.log) :
            /\ last.log[i].op = "CREATE ROLE" => last.log[i].effect = "skipped"
            /\ last.log[i].op \in CreationOps \ {"CREATE ROLE"} =>
                    last.log[i].pre /\ last.log[i].effect = "noop"
            /\ last.log[i].effect # "created"

\* a successful second run for 'lsd': its CREATE TABLE IF NOT EXISTS for the
\* topomaps table was issued and changed nothing
C3_Witness ==
    /\ RanBootstrapDepartmentAgain
    /\ last.prev_err = "none"
    /\ last.err = "none"
    /\ \E i \in 1..Len(last.log) :
            /\ last.log[i].op = "CREATE TABLE IF NOT EXISTS"
            /\ last.log[i].obj = "lsd_topomaps.qgis_projects"
            /\ last.log[i].effect = "noop"
    /\ \E i \in 1..Len(last.log) :
            last.log[i].op = "CREATE ROLE" /\ last.log[i].effect = "skipped"

C8_ResumeEqualsSingleRun ==
    (RanBootstrapDepartment /\ Clean(last) /\ pending.cmd = last.cmd) => db = pending.st

\* bootstrap_department('lsd') failed after its first call and before its
\* last, was run again, and the department is fully provisioned
C8_Witness ==
    /\ RanBootstrapDepartment /\ Clean(last) /\ last.err = "none"
    /\ pending.cmd = last.cmd
    /\ last.arg = <<"lsd">>
    /\ pending.at > 5
    /\ last.changed
    /\ db = pending.st
    /\ "lsd_topomaps.qgis_projects" \in DOMAIN db.tables

\* C10 as stated: when a call of bootstrap_department(d) fails, no later call
\* is made, the error reaches the caller of the command, and what the earlier
\* calls created is in the database.
C10_FailureAbortsAndPropagates ==
    (RanBootstrapDepartment /\ last.err # "none" /\ Len(last.log) > 0) =>
        /\ last.outcome = "raised"
        /\ last.log[Len(last.log)].effect \in {"failed", "check failed"}
        /\ \A i \in 1..(Len(last.log) - 1) :
              /\ last.log[i].effect \notin {"failed", "check failed"}
              /\ last.log[i].effect = "created" =>
                    \/ last.log[i].obj \in DOMAIN db.roles
                    \/ last.log[i].obj \in DOMAIN db.schemas
                    \/ last.log[i].obj \in DOMAIN db.tables

-----------------------------------------------------------------------------
(* Properties of the storage commands *)

\* the failed run added the access policy and did not attach it to the group
FailedBeforePolicyAttached(log) ==
    /\ \E i \in 1..Len(log) :
          log[i].op = "admin policy add" /\ log[i].effect = "changed"
    /\ \A i \in 1..Len(log) :
          log[i].op = "admin policy set group=" => log[i].effect = "failed"

\* C7 as stated: add_department_user fails after the policy was added and
\* before it was attached to the group; the same command run again with no
\* fault leaves the group existing, with the policy attached and the user in it.
C7_ResumeAttachesPolicy ==
    (/\ last.cmd = "minio.add_department_user"
     /\ Clean(last)
     /\ pending.cmd = last.cmd
     /\ FailedBeforePolicyAttached(pending.log)) =>
        LET policy_name == get_policy_name(last.arg[3], SubSeq(last.arg, 5, Len(last.arg)))
            group_name == get_group_name(last.arg[3], policy_name)
        IN  /\ group_name \in DOMAIN minio.groups
            /\ minio.groups[group_name].policy = policy_name
            /\ last.arg[1] \in minio.groups[group_name].members

-----------------------------------------------------------------------------
(* Properties of the GIS commands *)

\* the requests that create something in GeoNode or GeoServer
CreationRequests ==
    {"POST /en/admin/groups/groupcategory/add/", "POST /groups/create/",
     "POST /rest/workspaces", "POST /rest/geofence/adminrules",
     "POST /rest/geofence/rules", "POST /rest/workspaces/{workspace}/datastores"}

\* a department with all that add_department provisions for it
FullyProvisioned(g, department) ==
    LET role_name == "ROLE_" \o get_geoserver_group_name(department)
    IN  /\ get_geonode_group_name(department) \in DOMAIN g.groups
        /\ department \in g.workspaces
        /\ \E rule \in g.admin_rules :
               rule.roleName = role_name /\ rule.workspace = department
        /\ \E rule \in g.data_rules :
               rule.roleName = role_name /\ rule.workspace = department
        /\ <<department, "dominode_db_" \o department>> \in g.stores

\* the run with this log created the department's GeoNode group and then failed
FailedAfterGroupCreated(log, department) ==
    /\ \E i \in 1..Len(log) :
           /\ log[i].op = "POST /groups/create/"
           /\ log[i].obj = get_geonode_group_name(department)
           /\ log[i].effect = "changed"
    /\ log[Len(log)].effect = "failed"

\* C5 as stated: a second, fault-free run of the GIS bootstrap right after a
\* successful one sends no creation request at all, the one for the
\* 'dominode-internal' group included.
C5_SecondRunSendsNoCreationRequest ==
    (/\ last.cmd = "geonode.bootstrap" /\ last.again
     /\ last.prev_err = "none" /\ last.err = "none") =>
        \A i \in 1..Len(last.log) : last.log[i].op \notin CreationRequests

\* C6 as stated: once a GIS bootstrap failed after it created a department's
\* GeoNode group, a fault-free rerun that returns leaves that department
\* fully provisioned.
C6_RerunCompletesDepartment ==
    (/\ last.cmd = "geonode.bootstrap" /\ Clean(last) /\ last.err = "none"
     /\ pending.cmd = last.cmd) =>
        \A department \in config :
            FailedAfterGroupCreated(pending.log, department) =>
                FullyProvisioned(geo, department)

-----------------------------------------------------------------------------
(* Properties of the top-level bootstrap *)

\* the run with this log created `obj` with the call `op`
Created(log, op, obj) ==
    \E i \in 1..Len(log) :
        log[i].op = op /\ log[i].obj = obj /\ log[i].effect = "changed"

\* the department's roles and staging schema are in the database
DbProvisioned(d, department) ==
    /\ {department \o "_user", department \o "_editor"} \subseteq DOMAIN d.roles
    /\ (department \o "_staging") \in DOMAIN d.schemas

\* the department's buckets are on the storage server
StorageProvisioned(m, department) ==
    {get_staging_bucket_name(department),
     get_dominode_staging_root_dir_name(department),
     get_public_root_dir_name(department)} \subseteq m.buckets

\* C9 as stated: a top-level bootstrap creates a department's staging bucket
\* only with the department's roles and schema in the database, and its
\* workspace only with its buckets on the storage server; a database
\* bootstrap that raises is the only stage started.  (The database changes
\* only in the first stage and the storage only in the second, so the state
\* at the end of the command is the state when the later stage acted.)
C9_DatabaseThenStorageThenGis ==
    last.cmd = "bootstrap" =>
        /\ \A department \in Departments :
               /\ Created(last.log, "mb --ignore-existing",
                          get_staging_bucket_name(department))
                      => DbProvisioned(db, department)
               /\ Created(last.log, "POST /rest/workspaces", department)
                      => StorageProvisioned(minio, department)
        /\ (last.outcome = "raised" /\ last.stages[Len(last.stages)] = "db")
               => last.stages = <<"db">>

-----------------------------------------------------------------------------
(* Properties of the error handling *)

DbCommands == {"db.bootstrap", "db.add_department", "db.add_department_user"}

\* C11 as stated: an error that a call raises inside the body of
\* get_db_connection, the connection made, leaves the command: no database
\* command whose body raised returns.
C11_BodyErrorLeavesCommand ==
    (last.cmd \in DbCommands /\ last.err # "none" /\ last.conn_failures < max_tries) =>
        last.outcome = "raised"


GeoNodeCreations == {"POST /groups/create/", "POST /en/admin/groups/groupcategory/add/"}

\* C12 as stated: when GeoNode answers the request that creates a group or
\* the editor category with an error status, the GIS bootstrap raises at that
\* request: the rejected request is the last request of the command.
C12_RejectedCreationAborts ==
    (last.cmd = "geonode.bootstrap") =>
        \A i \in 1..Len(last.log) :
            (last.log[i].op \in GeoNodeCreations /\ last.log[i].effect = "ignored") =>
                (last.outcome = "raised" /\ i = Len(last.log))


\* the requests of the GIS bootstrap that create something for department d
DepartmentCreations(log, d) ==
    {i \in 1..Len(log) :
        \/ log[i].op = "POST /groups/create/" /\ log[i].obj = get_geonode_group_name(d)
        \/ log[i].op = "POST /rest/workspaces" /\ log[i].obj = d}

ConfigurationError(d) == HttpLine("config", d, "", "failed")

\* C13: when the section of a department has no geoserver password, the GIS
\* bootstrap raises, sends no request that creates the GeoNode group or the
\* GeoServer workspace of that department, and, when it gets as far as that
\* department, ends with the configuration error for it.
C13_MissingPasswordFailsBeforeCreation ==
    (last.cmd = "geonode.bootstrap" /\ config # Departments) =>
        /\ last.outcome = "raised"
        /\ \A d \in Departments \ config : DepartmentCreations(last.log, d) = {}
        /\ last.err = "RuntimeError" <=>
               \E d \in Departments \ config :
                   last.log[Len(last.log)] = ConfigurationError(d)
        /\ last.fault = 0 => last.err = "RuntimeError"

C13_Witness ==
    /\ last.cmd = "geonode.bootstrap"
    /\ "ppd" \notin config
    /\ last.fault = 0
    /\ last.err = "RuntimeError"
    /\ last.outcome = "raised"
    /\ last.log[Len(last.log)] = ConfigurationError("ppd")
    /\ geo.categories = {EDITOR_GROUP_CATEGORY_NAME}
    /\ DOMAIN geo.groups = {}
    /\ geo.workspaces = {}


\* what bootstrap_department makes for department d in the database
DepartmentObjects(d) ==
    {d \o "_user", d \o "_editor", d \o "_staging", QgisTable(d \o "_staging"),
     get_geoserver_db_username(d)}

\* C14 as stated: a database command that fails on the missing
\* geoserver_password of department d has created no role, schema or table
\* of d.
C14_MissingSecretFailsBeforeMutation ==
    (last.cmd \in DbCommands /\ last.err = "KeyError") =>
        \A d \in Departments \ config :
            \A i \in 1..Len(last.log) :
                ~(last.log[i].obj \in DepartmentObjects(d) /\ last.log[i].effect = "created")


-----------------------------------------------------------------------------
(* Properties of what bootstrap_department creates *)

\* the objects that the statements `op` of a command's log created
CreatedObjects(log, op) ==
    {log[i].obj : i \in {j \in 1..Len(log) : log[j].op = op /\ log[j].effect = "created"}}

CreateStatements ==
    {"CREATE ROLE", "CREATE SCHEMA IF NOT EXISTS", "CREATE TABLE IF NOT EXISTS"}

\* the last command was bootstrap_department('lsd'), no call of it made to
\* fail, on a database that had the generic roles, nothing of lsd and
\* nothing of another department
BootstrappedLsdOnGenericRoles ==
    /\ last.cmd = "db.add_department"
    /\ last.arg = <<"lsd">>
    /\ last.fault = 0
    /\ last.conn_failures < max_tries
    /\ {generic_user_name, generic_editor_role_name} \subseteq DOMAIN db.roles
    /\ \A i \in 1..Len(last.log) : last.log[i].op \in CreateStatements => ~last.log[i].pre
    /\ \A d \in Departments \ {"lsd"} :
           DepartmentObjects(d) \cap (DOMAIN db.roles \cup DOMAIN db.schemas \cup DOMAIN db.tables) = {}

\* bootstrap_department('lsd') created the roles `roles` and, besides,
\* what the sentence lists
LsdCreated(roles) ==
    /\ last.err = "none"
    /\ CreatedObjects(last.log, "CREATE ROLE") = roles
    /\ CreatedObjects(last.log, "CREATE SCHEMA IF NOT EXISTS") = {"lsd_staging", "lsd_topomaps"}
    /\ CreatedObjects(last.log, "CREATE TABLE IF NOT EXISTS") =
           {QgisTable("lsd_staging"), QgisTable("lsd_topomaps")}
    /\ db.roles["lsd_editor"].parents = {"editor", "lsd_user"}
    /\ db.schemas["lsd_staging"].owner = "lsd_editor"
    /\ db.tables[QgisTable("lsd_topomaps")].noUpdate
    /\ db.tables[QgisTable("lsd_topomaps")].select = {"lsd_user"}

\* C15 as stated: on a database with the generic roles and no department,
\* bootstrap_department('lsd') creates exactly the roles lsd_user, lsd_editor
\* (member of editor and lsd_user) and lsd_topomap_editor, the schemas
\* lsd_staging (owned by lsd_editor) and lsd_topomaps, and a qgis_projects
\* table in each, the one of lsd_topomaps with UPDATE revoked from its owner
\* and SELECT granted to lsd_user.
C15_CreatesExactlyTheListed ==
    BootstrappedLsdOnGenericRoles =>
        LsdCreated({"lsd_user", "lsd_editor", LSD_TOPOMAP_EDITOR_ROLE_NAME})

\* C15 amended: the same, and one more role: the login role lsd_geoserver,
\* member of dominode_user.
C15_CreatesTheListedAndGeoserverUser ==
    BootstrappedLsdOnGenericRoles =>
        /\ LsdCreated({"lsd_user", "lsd_editor", LSD_TOPOMAP_EDITOR_ROLE_NAME,
                       get_geoserver_db_username("lsd")})
        /\ db.roles[get_geoserver_db_username("lsd")].parents = {generic_user_name}
        /\ "LOGIN" \in db.roles[get_geoserver_db_username("lsd")].opts

C15_Witness ==
    /\ BootstrappedLsdOnGenericRoles
    /\ DOMAIN db.roles = {"admin", "replicator", generic_user_name, generic_editor_role_name,
                          "lsd_user", "lsd_editor", LSD_TOPOMAP_EDITOR_ROLE_NAME,
                          get_geoserver_db_username("lsd")}
    /\ DOMAIN db.tables = {QgisTable("lsd_staging"), QgisTable("lsd_topomaps")}


\* the topomap role, schema and table
TopomapObjects == {LSD_TOPOMAP_EDITOR_ROLE_NAME, "lsd_topomaps", QgisTable("lsd_topomaps")}

\* the calls of a command's log that are about a topomap object
TopomapLines(log) ==
    {i \in 1..Len(log) : log[i].obj \in TopomapObjects \/ log[i].who \in TopomapObjects}

TopomapsProvisioned ==
    /\ LSD_TOPOMAP_EDITOR_ROLE_NAME \in DOMAIN db.roles
    /\ "lsd_topomaps" \in DOMAIN db.schemas
    /\ QgisTable("lsd_topomaps") \in DOMAIN db.tables

\* C16: bootstrap_department(d) provisions the topomap role, schema and table
\* if and only if d is 'lsd': for another department it makes no call about
\* any of them, and for 'lsd' a run that completes leaves all three in the
\* database, each made or found by a call of the run.
C16_TopomapsIffLsd ==
    RanBootstrapDepartment =>
        /\ last.arg # <<"lsd">> => TopomapLines(last.log) = {}
        /\ (last.arg = <<"lsd">> /\ last.err = "none" /\ last.conn_failures < max_tries) =>
               /\ TopomapsProvisioned
               /\ \A o \in TopomapObjects : \E i \in TopomapLines(last.log) :
                      /\ last.log[i].obj = o
                      /\ last.log[i].op \in CreateStatements

\* bootstrap_department('ppd') completed and the database has the roles of
\* ppd and no topomap object
C16_Witness ==
    /\ RanBootstrapDepartment
    /\ last.arg = <<"ppd">>
    /\ last.err = "none"
    /\ last.changed
    /\ "ppd_editor" \in DOMAIN db.roles
    /\ QgisTable("ppd_staging") \in DOMAIN db.tables
    /\ TopomapObjects \cap (DOMAIN db.roles \cup DOMAIN db.schemas \cup DOMAIN db.tables) = {}


-----------------------------------------------------------------------------
(* Properties of the policy generators *)

Generators == {"get_user_policy", "get_editor_policy"}

Elements(list) == {list[i] : i \in 1..Len(list)}

\* a list up to the order of its elements: how many times each occurs
Unordered(list) ==
    [x \in Elements(list) |-> Cardinality({i \in 1..Len(list) : list[i] = x})]

\* a policy document with the order of its lists (statements, actions,
\* resources) canonicalized
Canonical(document) ==
    [Version |-> document.Version,
     Statement |-> Unordered([i \in 1..Len(document.Statement) |->
                     [Sid |-> document.Statement[i].Sid,
                      Effect |-> document.Statement[i].Effect,
                      Action |-> Unordered(document.Statement[i].Action),
                      Resource |-> Unordered(document.Statement[i].Resource)]])]

\* C17 as stated: the documents that a generator makes for the same
\* departments given in two orders are equal once the order of their lists is
\* canonicalized, the Sid of every statement included.
C17_OrderOfDepartmentsIrrelevant ==
    \A g \in Generators :
        ({<<g, "first">>, <<g, "reordered">>} \subseteq DOMAIN generated) =>
            Canonical(generated[<<g, "first">>]) = Canonical(generated[<<g, "reordered">>])


Arn(path) == "arn:aws:s3:::" \o path

Resources(document, i) == Elements(document.Statement[i].Resource)

Actions(document, i) == Elements(document.Statement[i].Action)

ReadOnlyActions == {"s3:GetBucketLocation", "s3:ListBucket", "s3:GetObject"}

\* the public bucket and the paths under it
PublicPaths ==
    {Arn("public"), Arn("public/*")} \cup {Arn("public/" \o d \o "/*") : d \in Departments}

\* statements 1 and 3 of a policy for the departments D: the denial of bucket
\* deletion and the read-only access
DenyAndReadOnly(document, D) ==
    /\ Len(document.Statement) = 3
    /\ document.Statement[1].Effect = "Deny"
    /\ Actions(document, 1) = {"s3:DeleteBucket"}
    /\ Resources(document, 1) = {Arn("dominode-staging")} \cup {Arn(d \o "-staging") : d \in D}
    /\ document.Statement[2].Effect = "Allow"
    /\ Actions(document, 2) = {"s3:*"}
    /\ document.Statement[3].Effect = "Allow"
    /\ Actions(document, 3) = ReadOnlyActions
    /\ Resources(document, 3) = {Arn("dominode-staging/*"), Arn("public/*")}

C20_EmptyListGivesBasePolicy ==
    \A g \in Generators : \A order \in Orders :
        (<<g, order>> \in DOMAIN generated /\ given[order] = <<>>) =>
            /\ DenyAndReadOnly(generated[<<g, order>>], {})
            /\ Resources(generated[<<g, order>>], 2) = {}
            /\ \A i \in 1..3 : \A d \in Departments :
                   Resources(generated[<<g, order>>], i) \cap
                       {Arn(d \o "-staging"), Arn(d \o "-staging/*"),
                        Arn("dominode-staging/" \o d \o "/*"),
                        Arn("public/" \o d \o "/*")} = {}
            /\ [i \in 1..3 |-> generated[<<g, order>>].Statement[i].Sid] =
                   IF g = "get_user_policy"
                   THEN <<"regular-user-deny-bucket-delete", "regular-user-allow-full-access",
                          "regular-user-read-only-access">>
                   ELSE <<"editor-user-deny-bucket-delete", "editor-user-allow-full-access",
                          "editor-user-read-only-access">>

C20_Witness ==
    /\ given.first = <<>>
    /\ DOMAIN generated = {<<"get_user_policy", "first">>, <<"get_editor_policy", "first">>}
    /\ generated[<<"get_user_policy", "first">>].Version = POLICY_VERSION


\* the departments of a list, each after a hyphen, in the order of the list
RECURSIVE Hyphenated(_)
Hyphenated(list) ==
    IF list = <<>> THEN "" ELSE "-" \o Head(list) \o Hyphenated(Tail(list))

SidPrefix(g) == IF g = "get_user_policy" THEN "regular-user" ELSE "editor-user"

SidNames == <<"-deny-bucket-delete", "-allow-full-access", "-read-only-access">>

Sids(document) == [i \in 1..Len(document.Statement) |-> document.Statement[i].Sid]

\* C21: in every generated policy the Sids of the statements are pairwise
\* distinct, and each is the name of its statement after the prefix of the
\* role, followed by the departments of the input: the role and the
\* departments determine it, and the two roles never share a Sid.
C21_SidsDistinctAndDerived ==
    \A g \in Generators : \A order \in Orders :
        <<g, order>> \in DOMAIN generated =>
            /\ \A i, j \in 1..Len(generated[<<g, order>>].Statement) :
                   i # j => generated[<<g, order>>].Statement[i].Sid
                                # generated[<<g, order>>].Statement[j].Sid
            /\ Sids(generated[<<g, order>>]) =
                   [i \in 1..3 |-> SidPrefix(g) \o SidNames[i] \o Hyphenated(given[order])]
            /\ \A h \in Generators \ {g} : \A o \in Orders :
                   <<h, o>> \in DOMAIN generated =>
                       Elements(Sids(generated[<<g, order>>]))
                           \cap Elements(Sids(generated[<<h, o>>])) = {}

C21_Witness ==
    /\ given.first = <<"lsd", "ppd", "lsd">>
    /\ DOMAIN generated = {<<"get_user_policy", "first">>, <<"get_editor_policy", "first">>}
    /\ generated[<<"get_editor_policy", "first">>].Statement[3].Sid =
           "editor-user-read-only-access-lsd-ppd-lsd"


-----------------------------------------------------------------------------
(* Properties of the names derived for a department *)

Backends == {"db", "minio", "geonode"}

\* C22: for two distinct department names, every naming function (user role,
\* editor role, staging schema, GeoServer database username; staging bucket,
\* staging and public directory; GeoNode group) returns two different names.
C22_NamesInjective ==
    \A b \in Backends :
        ({<<b, "d1">>, <<b, "d2">>} \subseteq DOMAIN generated /\ given.d1 # given.d2) =>
            \A f \in DOMAIN generated[<<b, "d1">>] :
                generated[<<b, "d1">>][f] # generated[<<b, "d2">>][f]

C22_Witness ==
    /\ given = [d1 |-> "lsd", d2 |-> "LSD"]
    /\ DOMAIN generated = Backends \X Which
    /\ generated[<<"db", "d1">>].editor_role = "lsd_editor"
    /\ generated[<<"db", "d2">>].editor_role = "LSD_editor"


\* the names that the bootstrap commands give to what all departments share
FixedRoles ==
    {"admin", "replicator", generic_user_name, generic_editor_role_name,
     LSD_TOPOMAP_EDITOR_ROLE_NAME}

FixedSchemas == {"dominode_staging", "lsd_topomaps"}

FixedBuckets == {DOMINODE_STAGING_BUCKET_NAME, PUBLIC_BUCKET_NAME}

FixedGroups == {INTERNAL_GEONODE_GROUP_NAME}

\* C23 as stated: for every department name, no role, schema, bucket or group
\* name derived for the department is a fixed name of the same backend.
C23_DerivedNamesAvoidFixedNames ==
    \A which \in Which :
        /\ <<"db", which>> \in DOMAIN generated =>
               /\ generated[<<"db", which>>].user_role \notin FixedRoles
               /\ generated[<<"db", which>>].editor_role \notin FixedRoles
               /\ generated[<<"db", which>>].geoserver_db_username \notin FixedRoles
               /\ generated[<<"db", which>>].staging_schema_name \notin FixedSchemas
        /\ <<"minio", which>> \in DOMAIN generated =>
               generated[<<"minio", which>>].staging_bucket \notin FixedBuckets
        /\ <<"geonode", which>> \in DOMAIN generated =>
               generated[<<"geonode", which>>].geonode_group_name \notin FixedGroups


-----------------------------------------------------------------------------
(* Properties of the temporary storage user *)

TempUser == "tempuser"

\* the credential of create_temp_user is on the server
TempCredential(st) ==
    TempUser \in DOMAIN st.users /\ st.users[TempUser] = "12345678"

\* the calls `command` of a log that ended with `effect`
Calls(log, command, effect) ==
    {i \in 1..Len(log) : log[i].op = command /\ log[i].effect = effect}

-----------------------------------------------------------------------------
(* Properties of the GeoNode session *)

\* the requests `op` of a log that the server answered with success
Answered(log, op) ==
    {i \in 1..Len(log) : log[i].op = op /\ log[i].effect \in {"noop", "changed"}}

\* C25 as stated: a GIS command that logged in to GeoNode has logged out when
\* it ends, whether it returns or raises.
C25_SessionReleasedOnEveryExit ==
    (last.cmd = "geonode.bootstrap") =>
        \A i \in Answered(last.log, "POST /account/login/") :
            \E j \in Answered(last.log, "POST /account/logout/") : j > i


-----------------------------------------------------------------------------
(* Properties of the storage user *)

\* C26 as stated: when the storage add_department_user is run for an access key that
\* is in the user list, no 'user add' is issued for that key, the user is
\* still there with the secret it had, and the command goes on to look for
\* the policy as it does after adding a user.
C26_ExistingUserNotRecreated ==
    [][(/\ last'.cmd = "minio.add_department_user"
        /\ last'.arg[1] \in DOMAIN minio.users) =>
            /\ \A i \in 1..Len(last'.log) :
                   ~(last'.log[i].op = "admin user add" /\ last'.log[i].obj = last'.arg[1])
            /\ last'.arg[1] \in DOMAIN minio'.users
            /\ minio'.users[last'.arg[1]] = minio.users[last'.arg[1]]
            /\ (last'.fault = 0 /\ Len(last'.arg[4]) >= 8) =>
                   \E i \in 1..Len(last'.log) : last'.log[i].op = "admin policy list"]_vars


-----------------------------------------------------------------------------
(* Properties of the database user *)

\* C27: the database add_department_user for a username that exists as a
\* role issues no statement and leaves the database as it was: the role keeps
\* its password and its parent roles, whatever password, departments and
\* role the call asks for.
C27_ExistingRoleUntouched ==
    (/\ last.cmd = "db.add_department_user"
     /\ Len(last.log) > 0
     /\ last.log[1].pre) =>
        /\ ~last.changed
        /\ \A i \in 1..Len(last.log) : ~Issued(last.log[i])
        /\ last.arg[1] \in DOMAIN db.roles

\* u1 exists as a regular user of lsd; the call asks for an editor of ppd and
\* lsd with the topomap role and another password: u1 stays as it was
C27_Witness ==
    /\ last.cmd = "db.add_department_user"
    /\ last.arg = <<"u1", "pw2", "EDITOR", "ppd", "lsd", "topomap">>
    /\ Len(last.log) = 1
    /\ last.log[1].pre
    /\ last.outcome = "returned"
    /\ db.roles["u1"].parents = {"lsd_user"}
    /\ "PASSWORD pw1" \in db.roles["u1"].opts


-----------------------------------------------------------------------------
(* Properties of the policy and group names *)

Count(list, x) == Cardinality({i \in 1..Len(list) : list[i] = x})

RECURSIVE Repeated(_, _)
Repeated(text, n) == IF n = 0 THEN "" ELSE text \o Repeated(text, n - 1)

PolicySuffix(role) ==
    IF role = "EDITOR" THEN "editor-group-policy" ELSE "regular-user-group-policy"

GroupSuffix(role) == IF role = "EDITOR" THEN "-editor-group" ELSE "-user-group"

\* the policy name of a role for lsd given n_lsd times and ppd given n_ppd times
PolicyNameFor(role, n_lsd, n_ppd) ==
    (IF n_lsd + n_ppd = 0 THEN "-" ELSE Repeated("lsd-", n_lsd) \o Repeated("ppd-", n_ppd))
        \o PolicySuffix(role)

Once(list, x) == IF Count(list, x) > 0 THEN 1 ELSE 0

EditorRoleName(department) ==
    CASE department = "lsd" -> "ROLE_LSD-EDITOR"
      [] department = "ppd" -> "ROLE_PPD-EDITOR"

\* the rules among these for the department's workspace or its editors' role
RulesOf(rules, department) ==
    {rule \in rules : rule.workspace = department
                      \/ rule.roleName = EditorRoleName(department)}

\* the workspace, the two rules and the datastore of the department
GeoserverProvisioned(g, department) ==
    /\ department \in g.workspaces
    /\ RulesOf(g.admin_rules, department) =
           {[priority |-> 0, roleName |-> EditorRoleName(department),
             workspace |-> department, access |-> "ADMIN"]}
    /\ RulesOf(g.data_rules, department) =
           {[roleName |-> EditorRoleName(department), workspace |-> department,
             access |-> "ALLOW"]}
    /\ <<department, "dominode_db_" \o department>> \in g.stores

\* the department has no GeoNode group, no workspace and no rule
GeoserverWithout(g, department) ==
    /\ get_geonode_group_name(department) \notin DOMAIN g.groups
    /\ department \notin g.workspaces
    /\ RulesOf(g.admin_rules, department) = {}
    /\ RulesOf(g.data_rules, department) = {}

\* the admin rule with this access that a call with these arguments is about
AdminRuleOf(arg, access) ==
    [priority |-> 0, roleName |-> arg[2], workspace |-> arg[1], access |-> access]

\* C29: a bootstrap that returns leaves every department that had no group,
\* workspace or rule with its workspace, exactly one admin rule (its editors'
\* role, ADMIN), exactly one data rule (same role, ALLOW) and the datastore
\* dominode_db_{d}; create_geofence_admin_rule adds a rule with access ADMIN
\* for the role EDITOR and with access USER for any other role, and no other.
C29_GeoserverBootstrapAndAdminRuleAccess ==
    [][/\ (last'.cmd = "geonode.bootstrap" /\ last'.err = "none") =>
              \A d \in Departments :
                  GeoserverWithout(geo, d) => GeoserverProvisioned(geo', d)
       /\ (last'.cmd = "GeoServerManager.create_geofence_admin_rule"
           /\ last'.err = "none") =>
              geo'.admin_rules = geo.admin_rules \cup
                  {AdminRuleOf(last'.arg,
                       IF last'.arg[3] = "EDITOR" THEN "ADMIN" ELSE "USER")}]_vars

\* a bootstrap has provisioned ppd on a server that holds a USER rule, which a
\* call of create_geofence_admin_rule for another role than EDITOR has made
C29_Witness ==
    /\ last.cmd = "geonode.bootstrap" /\ last.err = "none" /\ last.fault = 0
    /\ \E i \in 1..Len(last.log) :
           /\ last.log[i].op = "POST /rest/geofence/adminrules"
           /\ last.log[i].obj = "ppd" /\ last.log[i].effect = "changed"
    /\ GeoserverProvisioned(geo, "ppd")
    /\ \E rule \in geo.admin_rules : rule.access = "USER"


\* ---- Properties of the discovery of the departments ----

\* the sections of the configuration that are named '{d}-department'
DepartmentSections(sections) ==
    {sections[i] : i \in {j \in 1..Len(sections) : endswith_department(sections[j])}}

\* the department string d of the section '{d}-department', in parts
DepartmentOf(section) == SubSeq(section, 1, Len(section) - 1)

\* C30: get_departments returns one entry per section named
\* '{d}-department', and its entries are exactly the department strings d
\* of these sections.
C30_DepartmentsAreTheSectionPrefixes ==
    "get_departments" \in DOMAIN generated =>
        /\ Len(generated["get_departments"]) =
               Cardinality(DepartmentSections(given.sections))
        /\ {<<generated["get_departments"][i]>> :
                i \in 1..Len(generated["get_departments"])}
             = {DepartmentOf(section) : section \in DepartmentSections(given.sections)}


\* ---- Properties of the connection to the database ----

\* C31: get_db_connection attempts to connect at most 30 times and sleeps
\* sleep_for seconds after each failed attempt that another one follows; when
\* all attempts have failed it raises OperationalError (after 30 attempts and
\* 29 pauses) and has yielded nothing; it yields at most one connection, and
\* once it has yielded one it makes no further attempt.
C31_BoundedAttemptsOneConnection ==
    /\ [](/\ generated.attempts <= max_tries
          /\ generated.yielded <= 1
          /\ \A i \in 1..Len(generated.pauses) : generated.pauses[i] = sleep_for
          /\ (generated.at = "while" /\ ~generated.connected) =>
                 Len(generated.pauses) = generated.attempts
          /\ (generated.at \in {"returned", "raised"} /\ generated.yielded = 0) =>
                 /\ generated.at = "raised" /\ generated.err = "OperationalError"
                 /\ generated.attempts = max_tries
                 /\ Len(generated.pauses) = max_tries - 1)
    /\ [][generated.yielded = 1 =>
              generated'.attempts = generated.attempts /\ generated'.yielded = 1]_vars

\* every one of the 30 attempts has failed and the error was raised
C31_Witness ==
    /\ generated.at = "raised" /\ generated.yielded = 0
    /\ generated.attempts = max_tries /\ generated.err = "OperationalError"


\* ---- Properties of MinioManager.set_policy ----

\* C32: set_policy given a user issues one 'policy set' that targets
\* user=<that user>; given only a group, one that targets group=<that group>;
\* given neither, it raises an error and issues no command.
C32_PolicySetTargetsTheGivenUserOrGroup ==
    last.cmd = "MinioManager.set_policy" =>
        LET user == last.arg[2]
            group == last.arg[3]
        IN  /\ user # "" =>
                  /\ Len(last.log) = 1
                  /\ last.log[1].op = "admin policy set user="
                  /\ last.log[1].obj = last.arg[1] /\ last.log[1].who = user
            /\ (user = "" /\ group # "") =>
                  /\ Len(last.log) = 1
                  /\ last.log[1].op = "admin policy set group="
                  /\ last.log[1].obj = last.arg[1] /\ last.log[1].who = group
            /\ (user = "" /\ group = "") =>
                  last.err = "RuntimeError" /\ last.log = <<>>


\* ---- Properties of the storage create_user and create_group ----

\* C37: create_user of a user that does not exist raises RuntimeError
\* ('Please choose a secret key with 8 or more characters') exactly when the
\* new user's secret key has fewer than 8 characters, whatever the
\* administrator's secret key, and then issues no 'user add'.
C37_ShortUserSecretRejected ==
    [][(/\ last'.cmd = "minio.create_user" /\ last'.fault = 0
        /\ last'.arg[1] \notin DOMAIN minio.users) =>
            /\ last'.err = "RuntimeError" <=> Len(last'.arg[2]) < 8
            /\ Len(last'.arg[2]) < 8 =>
                   \A i \in 1..Len(last'.log) : last'.log[i].op # "admin user add"]_vars

\* C38: create_group leaves every user that existed before the call on the
\* server with its secret, the user with the access key 'tempuser' included.
C38_CreateGroupKeepsExistingUsers ==
    [][last'.cmd = "minio.create_group" =>
           \A user \in DOMAIN minio.users :
               user \in DOMAIN minio'.users /\ minio'.users[user] = minio.users[user]]_vars


\* ---- Properties of the roles of a database user ----

\* the role of a department that a user with this role is to be a member of
DepartmentRoleOf(department, role) ==
    CASE department = "lsd" /\ role = "EDITOR" -> "lsd_editor"
      [] department = "ppd" /\ role = "EDITOR" -> "ppd_editor"
      [] department = "lsd" /\ role # "EDITOR" -> "lsd_user"
      [] department = "ppd" /\ role # "EDITOR" -> "ppd_user"

\* the roles the user of this add_department_user call is to be a member of
\* (the call's arguments: username, password, role, the departments, and
\* "topomap" when the topomap-editor flag is set)
ExpectedParentRoles(arg) ==
    {DepartmentRoleOf(arg[i], arg[3]) : i \in {j \in 4..Len(arg) : arg[j] # "topomap"}}
        \cup (IF arg[Len(arg)] = "topomap" THEN {"lsd_topomap_editor"} ELSE {})

\* C33: the role that the database add_department_user creates is a member
\* of exactly: {d}_editor for each given department d when the role is
\* editor, {d}_user otherwise, and lsd_topomap_editor if and only if the
\* topomap-editor flag is set.
C33_UserCreatedInItsParentRoles ==
    [][(/\ last'.cmd = "db.add_department_user"
        /\ last'.arg[1] \notin DOMAIN db.roles
        /\ last'.arg[1] \in DOMAIN db'.roles) =>
            db'.roles[last'.arg[1]].parents = ExpectedParentRoles(last'.arg)]_vars

\* an editor of ppd and lsd who is a topomap editor has been created
C33_Witness ==
    /\ last.cmd = "db.add_department_user" /\ last.changed
    /\ last.arg = <<"u1", "pw2", "EDITOR", "ppd", "lsd", "topomap">>
    /\ "u1" \in DOMAIN db.roles
    /\ db.roles["u1"].parents = {"ppd_editor", "lsd_editor", "lsd_topomap_editor"}


\* ---- Properties of what is not created again ----

\* the requests with which _bootstrap_department_in_geoserver creates something
GeoserverCreationRequests ==
    {"POST /rest/workspaces", "POST /rest/geofence/adminrules",
     "POST /rest/geofence/rules", "POST /rest/workspaces/{workspace}/datastores"}

\* C34: a bootstrap sends no creation request (workspace, admin rule, data
\* rule, datastore) for a department whose workspace existed when it
\* started, so no workspace is created while one with its name exists; and no
\* command adds a storage policy while one with its name exists.
C34_ExistingWorkspaceAndPolicyNotRecreated ==
    [][/\ last'.cmd = "geonode.bootstrap" =>
              \A i \in 1..Len(last'.log) :
                  last'.log[i].op \in GeoserverCreationRequests =>
                      last'.log[i].obj \notin geo.workspaces
       /\ last'.cmd = "minio.add_department_user" =>
              \A i \in 1..Len(last'.log) :
                  last'.log[i].op = "admin policy add" =>
                      last'.log[i].obj \notin DOMAIN minio.policies]_vars

\* a bootstrap has created the GeoNode group of ppd and gone on to the
\* GeoServer part, where it found the workspace ppd and created nothing
C34_Witness ==
    /\ last.cmd = "geonode.bootstrap" /\ last.fault = 0 /\ last.err = "none"
    /\ \E i \in 1..Len(last.log) :
           /\ last.log[i].op = "POST /groups/create/"
           /\ last.log[i].obj = "ppd-editor" /\ last.log[i].effect = "changed"
    /\ \A i \in 1..Len(last.log) :
           last.log[i].op \in GeoserverCreationRequests => last.log[i].obj # "ppd"
    /\ "ppd" \in geo.workspaces


\* ---- Properties of concurrent invocations ----

RolesNamed(o) ==
    IF o.op \in {"create_role", "CREATE ROLE"} THEN InRoles(o)
    ELSE IF o.op \in {"CREATE SCHEMA IF NOT EXISTS", "CREATE SCHEMA", "GRANT ON SCHEMA",
                      "ALTER TABLE OWNER TO", "GRANT SELECT",
                      "GRANT CREATE ON SCHEMA public TO"}
    THEN {o.who}
    ELSE {}

\* the database at the moment call i of this run is made
DbBefore(run, d0, i) == IF i = 1 THEN d0 ELSE run[i - 1].db

\* C36: in a database bootstrap that starts on an empty database with the
\* default configuration and meets no fault, every call is made, and every
\* role named in IN ROLE, or as owner or grantee of a schema or table, exists
\* in the database at the moment its statement is issued.
C36_RolesExistWhenNamed ==
    [][(/\ last'.cmd = "db.bootstrap" /\ last'.fault = 0 /\ last'.conn_failures = 0
        /\ db = EmptyDb /\ config = Departments) =>
            /\ Len(last'.log) = Len(db_bootstrap)
            /\ \A i \in 1..Len(RunOps(db, db, config, db_bootstrap, 1)) :
                   RolesNamed(db_bootstrap[i]) \subseteq
                       DOMAIN DbBefore(RunOps(db, db, config, db_bootstrap, 1), db, i).roles]_vars

\* the bootstrap has run on an empty database with the default
\* configuration: every role of its CREATE ROLE statements was new
C36_Witness ==
    /\ last.cmd = "db.bootstrap" /\ Clean(last) /\ last.err = "none"
    /\ config = Departments
    /\ Len(last.log) = Len(db_bootstrap)
    /\ \A i \in 1..Len(last.log) :
           last.log[i].op = "CREATE ROLE" => last.log[i].effect = "created"
    /\ \A i \in 1..Len(db_bootstrap) :
           RolesNamed(db_bootstrap[i]) \subseteq DOMAIN db.roles
    /\ \E i \in 1..Len(db_bootstrap) : RolesNamed(db_bootstrap[i]) # {}


\* ---- Properties of the listings of the GeoNode REST API ----

\* C39: a listing requests no more pages than the endpoint has, and it
\* returns the objects of every page of the endpoint, each exactly once.
C39_EveryPageOnce ==
    /\ generated.requests <= given.pages[given.endpoint]
    /\ generated.at = "returned" =>
           generated.objects =
               [j \in 1..given.pages[given.endpoint] |-> <<given.endpoint, j>>]

=============================================================================
